---------------------------- MODULE Spec2Model ----------------------------
(***************************************************************************)
(* A model of the RunSnap story editor (App.tsx, latest revision, lines    *)
(* 761-1199 of src/unnamed/part_000): the photo transform state, the       *)
(* gesture handlers that write it, the asynchronous photo load and the     *)
(* React commit that runs drawCanvas.                                      *)
(*                                                                         *)
(* Numbers.  JavaScript numbers are modelled as exact fractions <<n, d>>   *)
(* in lowest terms with d >= 0.  d = 0 encodes the non-finite values a     *)
(* division by zero produces: <<1,0>> is Infinity, <<-1,0>> is -Infinity   *)
(* and <<0,0>> is NaN.  The rounding of IEEE doubles is modelled where a   *)
(* Math.floor follows it, in the pace label; elsewhere it is not.          *)
(* The service worker (sw.js) is modelled in a section of its own.         *)
(*                                                                         *)
(* React.  useState hooks are the variables canvasState, transform and     *)
(* runData: they hold the value every queued updater has been applied to   *)
(* (updaters are pure and are processed in order, so folding them eagerly  *)
(* gives the value the next render computes).  view is the snapshot the    *)
(* last render committed: it is what the handlers' closures and drawCanvas *)
(* read.  Refs (isDragging, lastMousePos, lastPinchDist) are read and      *)
(* written immediately.                                                    *)
(***************************************************************************)
EXTENDS Integers, Sequences, FiniteSets, TLC

VARIABLES
    canvasState,    \* useState: [image], 0 stands for null
    transform,      \* useState: [scale, offsetX, offsetY]
    runData,        \* useState: the stat fields, emoji flag and filter id
    view,           \* what the last committed render captured
    canvas,         \* the composite the <canvas> element shows
    drawn,          \* the drawCanvas runs of the last step, in order
    isDragging,     \* useRef(false)
    lastMousePos,   \* useRef({x: 0, y: 0})
    lastPinchDist,  \* useRef(null): NULL or a number
    clientWidth,    \* containerRef.current.clientWidth
    touches,        \* number of contacts on the surface (e.touches.length)
    loading,        \* image ids whose FileReader / Image decode is running
    picked,         \* number of files picked so far (ids are 1..picked)
    transformFor,   \* history: image id the transform was last reset for
    startWidth,     \* history: clientWidth when handleStart last ran
    ev,             \* history: the event handled by the last step
    pre,            \* history: transform and refs as that event found them
    n,              \* history: number of events handled
    args,           \* the inputs of a function run on its own (NULL in App)
    result          \* what that function returned or drew

vars == <<canvasState, transform, runData, view, canvas, drawn, isDragging,
          lastMousePos, lastPinchDist, clientWidth, touches, loading, picked,
          transformFor, startWidth, ev, pre, n, args, result>>

-----------------------------------------------------------------------------
(* Bounds of the model *)

MaxEvents == 6

MaxPicked == 2

(* Inputs the environment draws from *)

Points == {[x |-> 0, y |-> 0], [x |-> 1, y |-> 2], [x |-> 3, y |-> 1]}

Widths == {360, 400}

Dists == {0, 2, 3, 60}

DeltaYs == {-1, 0, 1}

TouchCounts == 0..3

Origin == [x |-> 0, y |-> 0]

NULL == <<>>

-----------------------------------------------------------------------------
(* Arithmetic on fractions *)

Abs(i) == IF i < 0 THEN -i ELSE i

RECURSIVE GCD(_, _)
GCD(a, b) == IF b = 0 THEN a ELSE GCD(b, a % b)

Norm(num, den) ==
    LET s == IF den < 0 THEN -1 ELSE 1
        g == GCD(Abs(num), Abs(den))
    IN  IF g = 0 THEN <<0, 0>> ELSE <<(s * num) \div g, (s * den) \div g>>

Num(i) == <<i, 1>>

NaN == <<0, 0>>

IsNaN(a) == a = NaN

Mul(a, b) == Norm(a[1] * b[1], a[2] * b[2])

Div(a, b) ==
    IF IsNaN(a) \/ IsNaN(b) THEN NaN ELSE Norm(a[1] * b[2], a[2] * b[1])

Add(a, b) ==
    IF IsNaN(a) \/ IsNaN(b) THEN NaN
    ELSE IF a[2] = 0 /\ b[2] = 0
         THEN (IF a = b THEN a ELSE NaN)
         ELSE IF a[2] = 0 THEN a
         ELSE IF b[2] = 0 THEN b
         ELSE Norm(a[1] * b[2] + b[1] * a[2], a[2] * b[2])

Sub(a, b) == Add(a, <<-b[1], b[2]>>)

Le(a, b) ==
    /\ ~IsNaN(a)
    /\ ~IsNaN(b)
    /\ IF a[2] = 0 /\ b[2] = 0 THEN a[1] <= b[1] ELSE a[1] * b[2] <= b[1] * a[2]

Lt(a, b) == Le(a, b) /\ a # b

MathMin(a, b) ==
    IF IsNaN(a) \/ IsNaN(b) THEN NaN ELSE IF Le(a, b) THEN a ELSE b

MathMax(a, b) ==
    IF IsNaN(a) \/ IsNaN(b) THEN NaN ELSE IF Le(a, b) THEN b ELSE a

-----------------------------------------------------------------------------
(* Program constants *)

outputWidth == 1080

MinScale == <<1, 20>>

MaxScale == <<20, 1>>

WheelOut == <<9, 10>>

WheelIn == <<11, 10>>

Identity == [scale |-> Num(1), offsetX |-> Num(0), offsetY |-> Num(0)]

InitialRunData == [heartRate |-> "", showEmojis |-> TRUE, filter |-> "none"]

FilterIds == {"none", "sepia"}

\* the form fields the model edits, with the values their change events
\* deliver (e.target.value, or e.target.checked for the checkbox)
Fields == [heartRate |-> {"", "150"}, showEmojis |-> {TRUE, FALSE}]

-----------------------------------------------------------------------------
(* Pure helpers of the handlers *)

\* mutant of Clamp: the upper limit is lost
ClampNoUpper(x) == MathMax(MinScale, x)

\* mutant of Clamp: the two limits are exchanged
ClampLimitsSwapped(x) == MathMax(MaxScale, MathMin(MinScale, x))

\* Math.max(0.05, Math.min(20, x))
Clamp(x) == MathMax(MinScale, MathMin(MaxScale, x))

\* mutant of getMoveRatio: the ratio is inverted
getMoveRatioInverted == Div(Num(clientWidth), Num(outputWidth))

\* mutant of getMoveRatio: the width is the one cached when the drag began
getMoveRatioAtStart == Div(Num(outputWidth), Num(startWidth))

\* getMoveRatio: 1080 / containerRef.current.clientWidth
getMoveRatio == Div(Num(outputWidth), Num(clientWidth))

\* mutant of Falsy: only null counts as unset
FalsyNullOnly(v) == v = NULL

\* !lastPinchDist.current: null, 0 and NaN are falsy
Falsy(v) == v = NULL \/ v = Num(0) \/ v = NaN

\* mutant of WheelDelta: deltaY = 0 zooms out
WheelDeltaZeroOut(deltaY) == IF deltaY >= 0 THEN WheelOut ELSE WheelIn

\* e.deltaY > 0 ? 0.9 : 1.1
WheelDelta(deltaY) == IF deltaY > 0 THEN WheelOut ELSE WheelIn

-----------------------------------------------------------------------------
(* Rendering *)

Snapshot(cs, tr, rd, tf) ==
    [image |-> cs.image, transform |-> tr, runData |-> rd, transformFor |-> tf]

\* the inputs one drawCanvas run composites: the photo, the transform it is
\* drawn with, and the stats and filter the overlay and photo are drawn with
Composite(v) ==
    [image |-> v.image, transform |-> v.transform, runData |-> v.runData,
     transformFor |-> v.transformFor]

\* mutant of DrawDeps: transform is missing from the dependency list
DrawDepsNoTransform(v) == <<v.image, v.runData>>

\* the dependency list of useCallback(drawCanvas): a change re-creates
\* drawCanvas, which makes useEffect run it after the commit
DrawDeps(v) == <<v.image, v.runData, v.transform>>

\* drawCanvas as run by the effect of the commit old -> new
drawCanvas(old, new) ==
    IF DrawDeps(new) = DrawDeps(old) \/ new.image = 0
    THEN <<>>
    ELSE <<Composite(new)>>

\* the values a handler finds when it starts
Refs ==
    [transform |-> transform, isDragging |-> isDragging,
     lastMousePos |-> lastMousePos, lastPinchDist |-> lastPinchDist,
     touches |-> touches]

Pending == Snapshot(canvasState, transform, runData, transformFor) # view

-----------------------------------------------------------------------------
(* Initial state: the values of the useState and useRef calls *)

\* the App's state, which a function run on its own leaves alone
app == <<canvasState, transform, runData, view, canvas, drawn, isDragging,
         lastMousePos, lastPinchDist, clientWidth, touches, loading, picked,
         transformFor, startWidth, ev, pre, n>>

\* the App as mounted
Mounted ==
    /\ canvasState = [image |-> 0]
    /\ transform = Identity
    /\ runData = InitialRunData
    /\ view = Snapshot([image |-> 0], Identity, InitialRunData, 0)
    /\ canvas = NULL
    /\ drawn = <<>>
    /\ isDragging = FALSE
    /\ lastMousePos = Origin
    /\ lastPinchDist = NULL
    /\ clientWidth \in Widths
    /\ touches = 0
    /\ loading = {}
    /\ picked = 0
    /\ transformFor = 0
    /\ startWidth = clientWidth
    /\ ev = [type |-> "init", arg |-> 0]
    /\ pre = Refs
    /\ n = 0

Init ==
    /\ Mounted
    /\ args = NULL
    /\ result = NULL

-----------------------------------------------------------------------------
(* How React schedules the render that follows a handler *)

\* The handler set no state, or set it in a continuous event (mousemove,
\* touchmove, wheel) or outside a React handler (img.onload): the render is
\* scheduled as a later task, and other events may be handled before it.
Deferred == UNCHANGED <<view, canvas>> /\ drawn' = <<>>

\* One commit: the render captures the hooks' values and the effect runs
\* drawCanvas when its dependencies changed.
Commit(new) ==
    /\ view' = new
    /\ drawn' = drawCanvas(view, new)
    /\ canvas' = IF drawn' = <<>> THEN canvas ELSE drawn'[Len(drawn')]

\* Whether state set outside a React event handler (img.onload) is batched
\* into one render.  It is with a root made by createRoot (React 18 and
\* later); with ReactDOM.render each setState call there renders at once.
\* The root is created in index.tsx.
BatchedOutsideHandlers == TRUE

\* The handler set state in a discrete event (click, change): React renders
\* and runs the effects before the event's task ends.
Flush == Commit(Snapshot(canvasState', transform', runData', transformFor'))

\* a handled event; n bounds the number of events of one run of the model
Event(type, arg) ==
    /\ n < MaxEvents
    /\ n' = n + 1
    /\ ev' = [type |-> type, arg |-> arg]
    /\ pre' = Refs
    /\ UNCHANGED <<args, result>>

\* The scheduled render of the queued updates.
Render ==
    /\ Pending
    /\ Commit(Snapshot(canvasState, transform, runData, transformFor))
    /\ ev' = [type |-> "render", arg |-> 0]
    /\ pre' = Refs
    /\ UNCHANGED <<canvasState, transform, runData, isDragging, lastMousePos,
                   lastPinchDist, clientWidth, touches, loading, picked,
                   transformFor, startWidth, n, args, result>>

-----------------------------------------------------------------------------
(* The gesture handlers.  Each states the new value of transform and of the *)
(* three refs (and of the history variable startWidth).                     *)

handleStart(x, y) ==
    /\ isDragging' = TRUE
    /\ lastMousePos' = [x |-> x, y |-> y]
    /\ startWidth' = clientWidth
    /\ UNCHANGED <<transform, lastPinchDist>>

\* mutant of handleMove: the new offset is computed from the transform of
\* the last render instead of the queued one
handleMoveStale(x, y) ==
    IF ~isDragging \/ view.image = 0
    THEN UNCHANGED <<transform, isDragging, lastMousePos, lastPinchDist,
                     startWidth>>
    ELSE LET ratio == getMoveRatio
             dx == Mul(Num(x - lastMousePos.x), ratio)
             dy == Mul(Num(y - lastMousePos.y), ratio)
         IN  /\ transform' =
                    [view.transform EXCEPT !.offsetX = Add(@, dx),
                                           !.offsetY = Add(@, dy)]
             /\ lastMousePos' = [x |-> x, y |-> y]
             /\ UNCHANGED <<isDragging, lastPinchDist, startWidth>>

handleMove(x, y) ==
    IF ~isDragging \/ view.image = 0
    THEN UNCHANGED <<transform, isDragging, lastMousePos, lastPinchDist,
                     startWidth>>
    ELSE LET ratio == getMoveRatio
             dx == Mul(Num(x - lastMousePos.x), ratio)
             dy == Mul(Num(y - lastMousePos.y), ratio)
         IN  /\ transform' = [transform EXCEPT !.offsetX = Add(@, dx),
                                               !.offsetY = Add(@, dy)]
             /\ lastMousePos' = [x |-> x, y |-> y]
             /\ UNCHANGED <<isDragging, lastPinchDist, startWidth>>

\* mutant of handlePinch: the new scale is computed from the transform of
\* the last render instead of the queued one
handlePinchStale(dist) ==
    IF Falsy(lastPinchDist)
    THEN /\ lastPinchDist' = dist
         /\ UNCHANGED <<transform, isDragging, lastMousePos, startWidth>>
    ELSE LET ratio == Div(dist, lastPinchDist)
         IN  /\ transform' =
                    [view.transform EXCEPT !.scale = Clamp(Mul(@, ratio))]
             /\ lastPinchDist' = dist
             /\ UNCHANGED <<isDragging, lastMousePos, startWidth>>

\* mutant of handlePinch: the baseline is not moved to the sample
handlePinchNoRebase(dist) ==
    IF Falsy(lastPinchDist)
    THEN /\ lastPinchDist' = dist
         /\ UNCHANGED <<transform, isDragging, lastMousePos, startWidth>>
    ELSE LET ratio == Div(dist, lastPinchDist)
         IN  /\ transform' =
                    [transform EXCEPT !.scale = Clamp(Mul(@, ratio))]
             /\ UNCHANGED <<isDragging, lastMousePos, lastPinchDist,
                            startWidth>>

\* mutant of handlePinch: the zoom is about the canvas corner, so the offset
\* is scaled with the photo
handlePinchScalesOffset(dist) ==
    IF Falsy(lastPinchDist)
    THEN /\ lastPinchDist' = dist
         /\ UNCHANGED <<transform, isDragging, lastMousePos, startWidth>>
    ELSE LET ratio == Div(dist, lastPinchDist)
         IN  /\ transform' =
                    [scale |-> Clamp(Mul(transform.scale, ratio)),
                     offsetX |-> Mul(transform.offsetX, ratio),
                     offsetY |-> Mul(transform.offsetY, ratio)]
             /\ lastPinchDist' = dist
             /\ UNCHANGED <<isDragging, lastMousePos, startWidth>>

handlePinch(dist) ==
    IF Falsy(lastPinchDist)
    THEN /\ lastPinchDist' = dist
         /\ UNCHANGED <<transform, isDragging, lastMousePos, startWidth>>
    ELSE LET ratio == Div(dist, lastPinchDist)
         IN  /\ transform' =
                    [transform EXCEPT !.scale = Clamp(Mul(@, ratio))]
             /\ lastPinchDist' = dist
             /\ UNCHANGED <<isDragging, lastMousePos, startWidth>>

-----------------------------------------------------------------------------
(* The events of the preview container *)

Rest == <<canvasState, runData, clientWidth, loading, picked, transformFor>>

onMouseDown(p) ==
    /\ Event("mousedown", 0)
    /\ handleStart(p.x, p.y)
    /\ Deferred
    /\ UNCHANGED <<Rest, touches>>

onMouseMove(p) ==
    /\ Event("mousemove", 0)
    /\ handleMove(p.x, p.y)
    /\ Deferred
    /\ UNCHANGED <<Rest, touches>>

onMouseUp ==
    /\ Event("mouseup", 0)
    /\ isDragging' = FALSE
    /\ Deferred
    /\ UNCHANGED <<Rest, touches, transform, lastMousePos, lastPinchDist,
                   startWidth>>

\* mutant of onMouseLeave: leaving the surface does not end the drag
onMouseLeaveKeepsDrag ==
    /\ Event("mouseleave", 0)
    /\ Deferred
    /\ UNCHANGED <<Rest, touches, transform, isDragging, lastMousePos,
                   lastPinchDist, startWidth>>

onMouseLeave ==
    /\ Event("mouseleave", 0)
    /\ isDragging' = FALSE
    /\ Deferred
    /\ UNCHANGED <<Rest, touches, transform, lastMousePos, lastPinchDist,
                   startWidth>>

\* mutant of onWheel: the wheel handler also ends the drag and the pinch
onWheelEndsGesture(deltaY) ==
    /\ Event("wheel", deltaY)
    /\ IF view.image = 0
       THEN UNCHANGED transform
       ELSE LET delta == WheelDelta(deltaY)
            IN  transform' = [transform EXCEPT !.scale = Clamp(Mul(@, delta))]
    /\ isDragging' = FALSE
    /\ lastPinchDist' = NULL
    /\ Deferred
    /\ UNCHANGED <<Rest, touches, lastMousePos, startWidth>>

onWheel(deltaY) ==
    /\ Event("wheel", deltaY)
    /\ IF view.image = 0
       THEN UNCHANGED transform
       ELSE LET delta == WheelDelta(deltaY)
            IN  transform' = [transform EXCEPT !.scale = Clamp(Mul(@, delta))]
    /\ Deferred
    /\ UNCHANGED <<Rest, touches, isDragging, lastMousePos, lastPinchDist,
                   startWidth>>

\* k contacts are on the surface after the new ones landed; p is the first
\* contact's position and d the distance between the first two (Math.hypot).
\* The handler reads p only for k = 1 and d only for k = 2, so Next draws
\* only the one it reads.
onTouchStart(k, p, d) ==
    /\ k > touches
    /\ Event("touchstart", d)
    /\ touches' = k
    /\ IF k = 1
       THEN handleStart(p.x, p.y)
       ELSE IF k = 2
            THEN /\ lastPinchDist' = Num(d)
                 /\ UNCHANGED <<transform, isDragging, lastMousePos,
                                startWidth>>
            ELSE UNCHANGED <<transform, isDragging, lastMousePos,
                             lastPinchDist, startWidth>>
    /\ Deferred
    /\ UNCHANGED Rest

onTouchMove(p, d) ==
    /\ touches > 0
    /\ Event("touchmove", d)
    /\ IF touches = 1
       THEN handleMove(p.x, p.y)
       ELSE IF touches = 2
            THEN handlePinch(Num(d))
            ELSE UNCHANGED <<transform, isDragging, lastMousePos,
                             lastPinchDist, startWidth>>
    /\ Deferred
    /\ UNCHANGED <<Rest, touches>>

\* k contacts remain on the surface after the lifted ones left
onTouchEnd(k) ==
    /\ k < touches
    /\ Event("touchend", k)
    /\ touches' = k
    /\ isDragging' = FALSE
    /\ lastPinchDist' = NULL
    /\ Deferred
    /\ UNCHANGED <<Rest, transform, lastMousePos, startWidth>>

\* The number of contacts on the screen changes and no handler of the
\* container runs: a contact is cancelled (the container has no onTouchCancel),
\* or a contact lands or lifts outside the container, where its touchstart /
\* touchend is dispatched (e.touches counts every contact on the screen).
\* k contacts are on the screen afterwards.
UnhandledContactChange(k) ==
    /\ touches >= 1
    /\ k # touches
    /\ Event("contacts", k)
    /\ touches' = k
    /\ Deferred
    /\ UNCHANGED <<Rest, transform, isDragging, lastMousePos, lastPinchDist,
                   startWidth>>

\* the window is resized: the container is laid out w pixels wide
Resize(w) ==
    /\ w # clientWidth
    /\ Event("resize", w)
    /\ clientWidth' = w
    /\ Deferred
    /\ UNCHANGED <<canvasState, runData, loading, picked, transformFor,
                   touches, transform, isDragging, lastMousePos,
                   lastPinchDist, startWidth>>

-----------------------------------------------------------------------------
(* Photo load, reset button, stat fields and filter *)

Gesture == <<isDragging, lastMousePos, lastPinchDist, startWidth, touches,
             clientWidth>>

\* handleImageUpload: a file is picked and its FileReader / Image decode starts
handleImageUpload ==
    /\ picked < MaxPicked
    /\ Event("pick", picked + 1)
    /\ picked' = picked + 1
    /\ loading' = loading \cup {picked + 1}
    /\ Deferred
    /\ UNCHANGED <<canvasState, transform, runData, transformFor, Gesture>>

\* mutant of onloadTransform: only the offset is reset
onloadTransformKeepsScale == [Identity EXCEPT !.scale = transform.scale]

\* setTransform({ scale: 1, offsetX: 0, offsetY: 0 }) of img.onload
onloadTransform == Identity

\* mutant of imgOnload: the transform is not reset in the callback that
\* sets the image
imgOnloadImageOnly(id) ==
    /\ id \in loading
    /\ Event("load", id)
    /\ loading' = loading \ {id}
    /\ canvasState' = [canvasState EXCEPT !.image = id]
    /\ Deferred
    /\ UNCHANGED <<transform, transformFor, runData, picked, Gesture>>

\* img.onload of the decode of image id: setCanvasState, then setTransform
imgOnload(id) ==
    /\ id \in loading
    /\ Event("load", id)
    /\ loading' = loading \ {id}
    /\ canvasState' = [canvasState EXCEPT !.image = id]
    /\ transform' = onloadTransform
    /\ transformFor' = id
    /\ IF BatchedOutsideHandlers
       THEN Deferred
       ELSE LET first == Snapshot(canvasState', transform, runData,
                                  transformFor)
                second == Snapshot(canvasState', transform', runData,
                                   transformFor')
            IN  /\ view' = second
                /\ drawn' = drawCanvas(view, first) \o drawCanvas(first, second)
                /\ canvas' = IF drawn' = <<>> THEN canvas
                                              ELSE drawn'[Len(drawn')]
    /\ UNCHANGED <<runData, picked, Gesture>>

\* mutant of resetPosition: the button also puts the drag's reference
\* position back to the origin
resetPositionClearsLast ==
    /\ view.image # 0
    /\ Event("reset", 0)
    /\ transform' = Identity
    /\ lastMousePos' = Origin
    /\ UNCHANGED <<canvasState, runData, loading, picked, transformFor,
                   isDragging, lastPinchDist, startWidth, touches,
                   clientWidth>>
    /\ Flush

\* the reset-position button, rendered only while a photo is shown
resetPosition ==
    /\ view.image # 0
    /\ Event("reset", 0)
    /\ transform' = Identity
    /\ UNCHANGED <<canvasState, runData, loading, picked, transformFor,
                   Gesture>>
    /\ Flush

handleInputChange(name, value) ==
    /\ Event("input", 0)
    /\ runData' = [runData EXCEPT ![name] = value]
    /\ UNCHANGED <<canvasState, transform, loading, picked, transformFor,
                   Gesture>>
    /\ Flush

\* mutant of handleFilterSelect: picking a filter also resets the transform
handleFilterSelectResetsView(filterId) ==
    /\ Event("filter", 0)
    /\ runData' = [runData EXCEPT !.filter = filterId]
    /\ transform' = Identity
    /\ UNCHANGED <<canvasState, loading, picked, transformFor, Gesture>>
    /\ Flush

handleFilterSelect(filterId) ==
    /\ Event("filter", 0)
    /\ runData' = [runData EXCEPT !.filter = filterId]
    /\ UNCHANGED <<canvasState, transform, loading, picked, transformFor,
                   Gesture>>
    /\ Flush

\* handleDownload: the download button, disabled while no photo is shown;
\* it reads the canvas and sets no state
handleDownload ==
    /\ view.image # 0
    /\ Event("download", 0)
    /\ Deferred
    /\ UNCHANGED <<canvasState, transform, runData, loading, picked,
                   transformFor, Gesture>>

-----------------------------------------------------------------------------

Next ==
    \/ \E p \in Points : onMouseDown(p)
    \/ \E p \in Points : onMouseMove(p)
    \/ onMouseUp
    \/ onMouseLeave
    \/ \E deltaY \in DeltaYs : onWheel(deltaY)
    \/ \E p \in Points : onTouchStart(1, p, 0)
    \/ \E d \in Dists : onTouchStart(2, Origin, d)
    \/ \E k \in TouchCounts \ {1, 2} : onTouchStart(k, Origin, 0)
    \/ \E p \in Points : touches = 1 /\ onTouchMove(p, 0)
    \/ \E d \in Dists : touches = 2 /\ onTouchMove(Origin, d)
    \/ touches > 2 /\ onTouchMove(Origin, 0)
    \/ \E k \in TouchCounts : onTouchEnd(k)
    \/ \E k \in TouchCounts : UnhandledContactChange(k)
    \/ \E w \in Widths : Resize(w)
    \/ handleImageUpload
    \/ \E id \in loading : imgOnload(id)
    \/ resetPosition
    \/ \E name \in DOMAIN Fields : \E value \in Fields[name] :
          handleInputChange(name, value)
    \/ \E filterId \in FilterIds : handleFilterSelect(filterId)
    \/ handleDownload
    \/ Render

Spec == Init /\ [][Next]_vars

-----------------------------------------------------------------------------
(* The App on a touch-only device, from the moment the first photo is shown *)

\* the first photo was picked, loaded and drawn; no contact is down
PhotoShown ==
    /\ canvasState = [image |-> 1]
    /\ transform = Identity
    /\ runData = InitialRunData
    /\ view = Snapshot([image |-> 1], Identity, InitialRunData, 1)
    /\ canvas = Composite(view)
    /\ drawn = <<>>
    /\ isDragging = FALSE
    /\ lastMousePos = Origin
    /\ lastPinchDist = NULL
    /\ clientWidth \in Widths
    /\ touches = 0
    /\ loading = {}
    /\ picked = 1
    /\ transformFor = 1
    /\ startWidth = clientWidth
    /\ ev = [type |-> "init", arg |-> 0]
    /\ pre = Refs
    /\ n = 0

InitTouch ==
    /\ PhotoShown
    /\ args = NULL
    /\ result = NULL

NextTouch ==
    \/ \E p \in Points : onTouchStart(1, p, 0)
    \/ \E d \in Dists : onTouchStart(2, Origin, d)
    \/ \E k \in TouchCounts \ {1, 2} : onTouchStart(k, Origin, 0)
    \/ \E p \in Points : touches = 1 /\ onTouchMove(p, 0)
    \/ \E d \in Dists : touches = 2 /\ onTouchMove(Origin, d)
    \/ touches > 2 /\ onTouchMove(Origin, 0)
    \/ \E k \in TouchCounts : onTouchEnd(k)
    \/ \E k \in TouchCounts : UnhandledContactChange(k)
    \/ Render

SpecTouch == InitTouch /\ [][NextTouch]_vars

-----------------------------------------------------------------------------
(* The scale clamp run on its own *)

\* values of prev.scale * delta and prev.scale * ratio: below, at, between
\* and above the limits, zero, negative and infinite
ClampInputs ==
    {<<-1, 0>>, <<-3, 1>>, <<0, 1>>, <<1, 100>>, <<1, 20>>, <<1, 10>>,
     <<1, 2>>, <<1, 1>>, <<3, 2>>, <<10, 1>>, <<20, 1>>, <<21, 1>>,
     <<400, 1>>, <<1, 0>>}

InitClamp ==
    /\ Mounted
    /\ args \in ClampInputs \X ClampInputs
    /\ result = NULL

\* the clamp applied to x and y, and applied again to its own result
ApplyClamp ==
    /\ result = NULL
    /\ result' = [x |-> Clamp(args[1]), y |-> Clamp(args[2]),
                  xx |-> Clamp(Clamp(args[1]))]
    /\ UNCHANGED <<app, args>>

SpecClamp == InitClamp /\ [][ApplyClamp]_vars

-----------------------------------------------------------------------------
(* Strings, as sequences of characters, and their conversions *)

DigitChars == <<"0", "1", "2", "3", "4", "5", "6", "7", "8", "9">>

IsDigit(c) == \E i \in 1..10 : DigitChars[i] = c

DigitVal(c) == (CHOOSE i \in 1..10 : DigitChars[i] = c) - 1

RECURSIVE IntToString(_)
\* Number.prototype.toString of an integer
IntToString(i) ==
    IF i < 0 THEN <<"-">> \o IntToString(-i)
    ELSE IF i < 10 THEN <<DigitChars[i + 1]>>
    ELSE IntToString(i \div 10) \o <<DigitChars[(i % 10) + 1]>>

\* the string a template literal makes of a number
NumToString(a) ==
    IF IsNaN(a) THEN <<"N", "a", "N">>
    ELSE IF a[2] = 0
         THEN (IF a[1] < 0 THEN <<"-">> ELSE <<>>)
              \o <<"I", "n", "f", "i", "n", "i", "t", "y">>
         ELSE IntToString(a[1] \div a[2])

\* String.prototype.padStart(len, c)
padStart(s, len, c) ==
    IF Len(s) >= len THEN s ELSE [i \in 1..(len - Len(s)) |-> c] \o s

RECURSIVE SkipSpaces(_)
SkipSpaces(s) ==
    IF s # <<>> /\ Head(s) = " " THEN SkipSpaces(Tail(s)) ELSE s

RECURSIVE DigitsPrefix(_)
\* the longest prefix of s made of decimal digits
DigitsPrefix(s) ==
    IF s = <<>> \/ ~IsDigit(Head(s)) THEN <<>>
    ELSE <<Head(s)>> \o DigitsPrefix(Tail(s))

RECURSIVE DigitsValue(_, _)
DigitsValue(s, acc) ==
    IF s = <<>> THEN acc
    ELSE DigitsValue(Tail(s), 10 * acc + DigitVal(Head(s)))

RECURSIVE Pow10(_)
Pow10(e) == IF e = 0 THEN 1 ELSE 10 * Pow10(e - 1)

Signed(s) == s # <<>> /\ Head(s) \in {"-", "+"}

\* parseInt(s) of a decimal string (the value of a number input holds no
\* radix prefix): leading blanks, a sign, then digits up to the first
\* character that is none; NaN when there is no digit
parseInt(s) ==
    LET t == SkipSpaces(s)
        body == IF Signed(t) THEN Tail(t) ELSE t
        ds == DigitsPrefix(body)
        v == DigitsValue(ds, 0)
    IN  IF ds = <<>> THEN NaN
        ELSE Num(IF Head(t) = "-" THEN -v ELSE v)

\* s without its first k characters
Drop(s, k) == SubSeq(s, k + 1, Len(s))

\* parseFloat, last step: the mantissa ip.fp times ten to the exponent that
\* follows the e of r, if digits follow it
floatExponent(ip, fp, r) ==
    IF ip = <<>> /\ fp = <<>> THEN NaN
    ELSE IF r # <<>> /\ Head(r) \in {"e", "E"}
              /\ DigitsPrefix(IF Signed(Tail(r)) THEN Drop(r, 2)
                              ELSE Tail(r)) # <<>>
         THEN IF Tail(r)[1] = "-"
              THEN Div(Norm(DigitsValue(ip \o fp, 0), Pow10(Len(fp))),
                       Num(Pow10(DigitsValue(DigitsPrefix(Drop(r, 2)), 0))))
              ELSE Mul(Norm(DigitsValue(ip \o fp, 0), Pow10(Len(fp))),
                       Num(Pow10(DigitsValue(
                           DigitsPrefix(IF Signed(Tail(r)) THEN Drop(r, 2)
                                        ELSE Tail(r)), 0))))
         ELSE Norm(DigitsValue(ip \o fp, 0), Pow10(Len(fp)))

\* parseFloat, the fraction: r is what follows the integer digits ip
floatFraction(ip, r) ==
    IF r # <<>> /\ Head(r) = "."
    THEN floatExponent(ip, DigitsPrefix(Tail(r)),
                       Drop(r, Len(DigitsPrefix(Tail(r))) + 1))
    ELSE floatExponent(ip, <<>>, r)

\* parseFloat of an unsigned string
floatUnsigned(body) ==
    floatFraction(DigitsPrefix(body), Drop(body, Len(DigitsPrefix(body))))

\* parseFloat of a string without leading blanks
floatSigned(t) ==
    IF Signed(t)
    THEN IF Head(t) = "-" THEN Sub(Num(0), floatUnsigned(Tail(t)))
         ELSE floatUnsigned(Tail(t))
    ELSE floatUnsigned(t)

\* parseFloat(s): blanks, a sign, digits, a fraction, an exponent; NaN when
\* neither part of the mantissa has a digit
parseFloat(s) == floatSigned(SkipSpaces(s))

\* Math.floor
MathFloor(a) == IF a[2] = 0 THEN a ELSE Num(a[1] \div a[2])

\* mutant of OrZero: the empty string is not replaced
OrZeroOmitted(s) == s

\* s || '0'
OrZero(s) == IF s = <<>> THEN <<"0">> ELSE s

\* mutant of OrNumZero: NaN is not replaced
OrNumZeroOmitted(v) == v

\* v || 0
OrNumZero(v) == IF IsNaN(v) \/ v = Num(0) THEN Num(0) ELSE v

\* The numbers of the pace computation are IEEE 754 doubles: a double is
\* sign * m * 2^e, with m a natural of exactly 53 bits, or zero (m = 0), or
\* NaN (sign = 0).  A natural below 2^58 is written as a pair <<hi, lo>>
\* that stands for hi * 2^27 + lo.

Base == 2^27

\* the least hi of a natural of 53 bits
Top == 2^25

F64NaN == [sign |-> 0, m |-> <<0, 0>>, e |-> 0]

F64Zero == [sign |-> 1, m |-> <<0, 0>>, e |-> 0]

\* the one element of a set: The({f(v) : v \in {e}}) is f(e), computed on
\* the value of e
The(S) == CHOOSE v \in S : TRUE

Big(i) == <<i \div Base, i % Base>>

BigLe(a, b) == a[1] < b[1] \/ (a[1] = b[1] /\ a[2] <= b[2])

BigSub(a, b) ==
    IF a[2] >= b[2] THEN <<a[1] - b[1], a[2] - b[2]>>
    ELSE <<a[1] - b[1] - 1, a[2] + Base - b[2]>>

BigDouble(a) == <<2 * a[1] + (2 * a[2]) \div Base, (2 * a[2]) % Base>>

BigInc(a) ==
    IF a[2] + 1 = Base THEN <<a[1] + 1, 0>> ELSE <<a[1], a[2] + 1>>

BigHalve(a) == <<a[1] \div 2, (a[1] % 2) * (Base \div 2) + a[2] \div 2>>

RECURSIVE Shl(_, _)
\* a * 2^k, for a product below 2^58
Shl(a, k) ==
    IF k >= 27 THEN Shl(<<a[1] * Base + a[2], 0>>, k - 27)
    ELSE <<a[1] * 2^k + a[2] \div 2^(27 - k), (a[2] % 2^(27 - k)) * 2^k>>

\* a \div 2^k
Shr(a, k) ==
    IF k >= 27 THEN <<0, a[1] \div 2^(k - 27)>>
    ELSE <<a[1] \div 2^k, (a[1] % 2^k) * 2^(27 - k) + a[2] \div 2^k>>

\* v = <<a, e>> stands for a * 2^e: a is shifted up by j bits if it stays
\* below 2^53
NormBy(v, j) ==
    IF Shr(v[1], 53 - j) = <<0, 0>> THEN <<Shl(v[1], j), v[2] - j>> ELSE v

\* the double sign * a * 2^e for a natural a of 1 to 53 bits, which it
\* holds without rounding
Normal(sign, a, e) ==
    The({[sign |-> sign, m |-> v[1], e |-> v[2]] :
         v \in {NormBy(NormBy(NormBy(NormBy(NormBy(NormBy(
                    <<a, e>>, 32), 16), 8), 4), 2), 1)}})

\* one more bit of the quotient by d: q is the quotient so far and r the
\* remainder, r < d
QuotStep(q, r, d) ==
    IF BigLe(d, BigDouble(r))
    THEN <<BigInc(BigDouble(q)), BigSub(BigDouble(r), d)>>
    ELSE <<BigDouble(q), BigDouble(r)>>

RECURSIVE QuotBits(_, _, _)
\* k more bits of the quotient by d, from the quotient and the remainder
\* qr; the bits are worked out one half after the other
QuotBits(qr, d, k) ==
    IF k = 1 THEN QuotStep(qr[1], qr[2], d)
    ELSE The({QuotBits(half, d, k - k \div 2) :
              half \in {QuotBits(qr, d, k \div 2)}})

\* Round to nearest, ties to even: qr[1] holds the 53 bits of the quotient
\* and one bit more, and the remainder qr[2] tells whether more follow.
Nearest(sign, qr, e) ==
    IF qr[1][2] % 2 = 1
       /\ (qr[2] # <<0, 0>> \/ BigHalve(qr[1])[2] % 2 = 1)
    THEN IF BigInc(BigHalve(qr[1])) = <<2 * Top, 0>>
         THEN [sign |-> sign, m |-> <<Top, 0>>, e |-> e + 1]
         ELSE [sign |-> sign, m |-> BigInc(BigHalve(qr[1])), e |-> e]
    ELSE [sign |-> sign, m |-> BigHalve(qr[1]), e |-> e]

\* a / b for doubles a and b that are neither zero nor NaN
F64DivFinite(a, b) ==
    IF BigLe(b.m, a.m)
    THEN Nearest(a.sign * b.sign,
                 QuotBits(<<<<0, 1>>, BigSub(a.m, b.m)>>, b.m, 53),
                 a.e - b.e - 52)
    ELSE Nearest(a.sign * b.sign, QuotBits(<<<<0, 0>>, a.m>>, b.m, 54),
                 a.e - b.e - 53)

\* a / b of doubles, for b other than zero
F64Div(a, b) ==
    IF a.sign = 0 \/ b.sign = 0 THEN F64NaN
    ELSE IF a.m = <<0, 0>> THEN [F64Zero EXCEPT !.sign = a.sign * b.sign]
    ELSE The({F64DivFinite(ab[1], ab[2]) : ab \in {<<a, b>>}})

\* the double of an integer i, which holds it without rounding
F64Int(i) ==
    IF i = 0 THEN F64Zero
    ELSE Normal(IF i < 0 THEN -1 ELSE 1, Big(Abs(i)), 0)

\* the double nearest to the fraction a: NaN stays NaN
ToF64(a) ==
    IF a[2] = 0 THEN F64NaN ELSE F64Div(F64Int(a[1]), F64Int(a[2]))

\* Math.floor(f) as an integer (NaN for NaN); a magnitude of 2^31 or more,
\* which no pace label shows, counts as 2^31 - 1
F64Floor(f) ==
    IF f.sign = 0 THEN NaN
    ELSE IF f.m = <<0, 0>> THEN Num(0)
    ELSE IF f.e >= -21 THEN Num(f.sign * (2^31 - 1))
    ELSE IF f.e <= -53 THEN Num(IF f.sign = 1 THEN 0 ELSE -1)
    ELSE The({Num(IF f.sign = 1 \/ Shl(a, 0 - f.e) = f.m
                  THEN f.sign * (a[1] * Base + a[2])
                  ELSE 0 - (a[1] * Base + a[2]) - 1) :
              a \in {Shr(f.m, 0 - f.e)}})

\* f % k for a positive integer k and f below 2^31 in magnitude: what is
\* left of f, with its sign, once the multiples of k are taken away; no
\* rounding takes place
F64Rem(f, k) ==
    IF f.sign = 0 \/ f.m = <<0, 0>> \/ f.e <= -53 THEN f
    ELSE The({IF r = <<0, 0>> THEN [F64Zero EXCEPT !.sign = f.sign]
              ELSE Normal(f.sign, r, f.e) :
              r \in {The({BigSub(f.m, Shl(Big(a - (a % k)), 0 - f.e)) :
                          a \in {Shr(f.m, 0 - f.e)[1] * Base
                                 + Shr(f.m, 0 - f.e)[2]}})}})

\* calculatePace past the parsing of its inputs: the label for a distance
\* and an elapsed time, both as parsed
paceLabel(distanceNum, totalSeconds) ==
    LET paceInSeconds == F64Div(ToF64(totalSeconds), ToF64(distanceNum))
        pMin == F64Floor(F64Div(paceInSeconds, F64Int(60)))
        pSec == F64Floor(F64Rem(paceInSeconds, 60))
    IN  IF Le(distanceNum, Num(0)) THEN <<"-", "'", "-", "-", "\"">>
        ELSE IF Lt(pMin, Num(100))
             THEN NumToString(pMin) \o <<"'">>
                  \o padStart(NumToString(pSec), 2, "0") \o <<"\"">>
             ELSE <<"-", "-", "'", "-", "-", "\"">>

\* calculatePace: the pace label
calculatePace(rd) ==
    paceLabel(OrNumZero(parseFloat(rd.distance)),
              Add(Add(Mul(parseInt(OrZero(rd.timeHours)), Num(3600)),
                      Mul(parseInt(OrZero(rd.timeMinutes)), Num(60))),
                  parseInt(OrZero(rd.timeSeconds))))

\* mutant of timeDisplay: the hours are shown whatever their value
timeDisplayHoursAlways(rd) ==
    LET hoursInt == parseInt(OrZero(rd.timeHours))
        m == padStart(OrZero(rd.timeMinutes), 2, "0")
        s == padStart(OrZero(rd.timeSeconds), 2, "0")
    IN  padStart(NumToString(hoursInt), 2, "0") \o <<":">> \o m
        \o <<":">> \o s

\* the time label of drawCanvas
timeDisplay(rd) ==
    LET hoursInt == parseInt(OrZero(rd.timeHours))
        m == padStart(OrZero(rd.timeMinutes), 2, "0")
        s == padStart(OrZero(rd.timeSeconds), 2, "0")
    IN  IF Lt(Num(0), hoursInt)
        THEN padStart(NumToString(hoursInt), 2, "0") \o <<":">> \o m
             \o <<":">> \o s
        ELSE m \o <<":">> \o s

\* today.toLocaleDateString('ko-KR', {month: 'long', day: 'numeric'}): the
\* month number, the syllable for month, a blank, the day number and the
\* syllable for day (the two syllables are written by their romanised names)
dateDisplay(today) ==
    IntToString(today.month) \o <<"wol", " ">> \o IntToString(today.day)
    \o <<"il">>

-----------------------------------------------------------------------------
(* drawCanvas, call by call *)

outputHeight == 1920

FILTERS ==
    <<[id |-> "none", cssFilter |-> "none"],
      [id |-> "grayscale", cssFilter |-> "grayscale(100%)"],
      [id |-> "sepia", cssFilter |-> "sepia(60%)"],
      [id |-> "vivid", cssFilter |-> "saturate(160%) brightness(110%)"],
      [id |-> "dim", cssFilter |-> "brightness(70%) contrast(120%)"],
      [id |-> "warm",
       cssFilter |-> "sepia(30%) saturate(140%) brightness(105%)"],
      [id |-> "cool",
       cssFilter |-> "hue-rotate(180deg) saturate(80%) brightness(110%)"],
      [id |-> "high-contrast",
       cssFilter |-> "contrast(150%) brightness(90%)"]>>

\* FILTERS.find(f => f.id === id): the first match, or undefined
find(id) ==
    LET hits == {i \in 1..Len(FILTERS) : FILTERS[i].id = id}
    IN  IF hits = {} THEN NULL
        ELSE FILTERS[CHOOSE i \in hits : \A j \in hits : i <= j]

\* the state of a 2D context just created, or reset by an assignment to
\* canvas.width or canvas.height
DefaultCtx ==
    [filter |-> "none", shadowColor |-> "rgba(0, 0, 0, 0)",
     shadowBlur |-> Num(0), shadowOffsetX |-> Num(0),
     shadowOffsetY |-> Num(0), strokeStyle |-> "#000000",
     lineWidth |-> Num(1), fillStyle |-> "#000000",
     font |-> [weight |-> "normal", size |-> Num(10),
               family |-> "sans-serif"],
     textAlign |-> "start"]

\* the <canvas> element as mounted: 300 by 150, nothing drawn
FreshCanvas == [width |-> 300, height |-> 150, ctx |-> DefaultCtx]

\* mutant of Icon: the time label keeps its icon when the flag is off
IconStopwatchAlways(showEmoji, glyph) ==
    IF showEmoji \/ glyph = "stopwatch" THEN <<glyph, " ">> ELSE <<>>

\* the icon glyph and blank before a label, written by the glyph's name
Icon(showEmoji, glyph) == IF showEmoji THEN <<glyph, " ">> ELSE <<>>

\* mutant of photoRect: a non-zero offset replaces the centring position
photoRectOffsetReplaces(img, tr) ==
    LET drawWidth == Mul(Num(img.naturalWidth), tr.scale)
        drawHeight == Mul(Num(img.naturalHeight), tr.scale)
        basePosX == Div(Sub(Num(outputWidth), drawWidth), Num(2))
        basePosY == Div(Sub(Num(outputHeight), drawHeight), Num(2))
    IN  [x |-> IF tr.offsetX = Num(0) THEN basePosX ELSE tr.offsetX,
         y |-> IF tr.offsetY = Num(0) THEN basePosY ELSE tr.offsetY,
         w |-> drawWidth, h |-> drawHeight]

\* the destination rectangle of the photo
photoRect(img, tr) ==
    LET drawWidth == Mul(Num(img.naturalWidth), tr.scale)
        drawHeight == Mul(Num(img.naturalHeight), tr.scale)
        basePosX == Div(Sub(Num(outputWidth), drawWidth), Num(2))
        basePosY == Div(Sub(Num(outputHeight), drawHeight), Num(2))
    IN  [x |-> Add(basePosX, tr.offsetX), y |-> Add(basePosY, tr.offsetY),
         w |-> drawWidth, h |-> drawHeight]

\* mutant of resetFilter: the filter is not reset after the photo
resetFilterOmitted(c) == c

\* ctx.filter = 'none' after the photo is drawn
resetFilter(c) == [c EXCEPT !.filter = "none"]

\* The photo step on a context in state c: the filter is set, the state
\* saved, the photo drawn, the state restored (to the one saved, filter
\* included) and the filter reset.  Each call records the context state it
\* is issued in.
drawPhoto(img, tr, rd, c) ==
    LET selectedFilter == find(rd.filter)
        c1 == [c EXCEPT !.filter = IF selectedFilter # NULL
                                   THEN selectedFilter.cssFilter
                                   ELSE "none"]
        saved == c1
        r == photoRect(img, tr)
        c2 == saved
    IN  [calls |-> <<[op |-> "drawImage", x |-> r.x, y |-> r.y, w |-> r.w,
                      h |-> r.h, ctx |-> c1]>>,
         ctx |-> resetFilter(c2)]

\* mutant of topLeftParts: an empty field is drawn as a placeholder
topLeftPartsAlways(rd) ==
    <<Icon(rd.showEmojis, "heart")
      \o (IF rd.heartRate # <<>> THEN rd.heartRate ELSE <<"-", "-">>)
      \o <<" ", "b", "p", "m">>,
      Icon(rd.showEmojis, "thermometer")
      \o (IF rd.temperature # <<>> THEN rd.temperature ELSE <<"-", "-">>)
      \o <<"deg", "C">>>>

\* the heart-rate and temperature labels, one for each field that is not
\* the empty string
topLeftParts(rd) ==
    (IF rd.heartRate # <<>>
     THEN <<Icon(rd.showEmojis, "heart") \o rd.heartRate
            \o <<" ", "b", "p", "m">>>>
     ELSE <<>>)
    \o (IF rd.temperature # <<>>
        THEN <<Icon(rd.showEmojis, "thermometer") \o rd.temperature
               \o <<"deg", "C">>>>
        ELSE <<>>)

\* The overlay on a W by H canvas: the frame, the heart-rate / temperature
\* label, the date label and the three stat labels.
drawOverlay(W, H, rd, today, c) ==
    LET side == Div(Num(W), Num(2))
        rectX == Div(Sub(Num(W), side), Num(2))
        rectY == Div(Sub(Num(H), side), Num(2))
        c1 == [c EXCEPT !.shadowColor = "rgba(0, 0, 0, 0.5)",
                        !.shadowBlur = Num(15),
                        !.shadowOffsetX = Num(3),
                        !.shadowOffsetY = Num(3),
                        !.strokeStyle = "white",
                        !.lineWidth = Num(6)]
        frame == [op |-> "strokeRect", x |-> rectX, y |-> rectY, w |-> side,
                  h |-> side, ctx |-> c1]
        margin == Mul(side, <<6, 100>>)
        dateFontSize == MathFloor(Div(side, Num(22)))
        c2 == [c1 EXCEPT !.fillStyle = "white",
                         !.font = [weight |-> "600", size |-> dateFontSize,
                                   family |-> "\"Inter\", sans-serif"],
                         !.textAlign = "left"]
        showEmoji == rd.showEmojis
        parts == topLeftParts(rd)
        joined == IF Len(parts) = 2
                  THEN parts[1] \o <<" ", " ">> \o parts[2]
                  ELSE parts[1]
        labelY == Add(Add(rectY, margin), dateFontSize)
        topLeft == IF Len(parts) > 0
                   THEN <<[op |-> "fillText", text |-> joined,
                           x |-> Add(rectX, margin), y |-> labelY,
                           ctx |-> c2]>>
                   ELSE <<>>
        c3 == [c2 EXCEPT !.textAlign = "right"]
        date == [op |-> "fillText", text |-> dateDisplay(today),
                 x |-> Sub(Add(rectX, side), margin), y |-> labelY,
                 ctx |-> c3]
        statsFontSize == MathFloor(Div(side, Num(17)))
        c4 == [c3 EXCEPT !.font = [weight |-> "bold", size |-> statsFontSize,
                                   family |-> "\"Inter\", sans-serif"],
                         !.textAlign = "center"]
        colWidth == Div(side, Num(3))
        statsY == Sub(Add(rectY, side), margin)
        time == [op |-> "fillText",
                 text |-> Icon(showEmoji, "stopwatch") \o timeDisplay(rd),
                 x |-> Add(rectX, Mul(colWidth, <<1, 2>>)), y |-> statsY,
                 ctx |-> c4]
        distance == [op |-> "fillText",
                     text |-> Icon(showEmoji, "pin")
                              \o (IF rd.distance # <<>> THEN rd.distance
                                  ELSE <<"0", ".", "0">>)
                              \o <<"k", "m">>,
                     x |-> Add(rectX, Mul(colWidth, <<3, 2>>)), y |-> statsY,
                     ctx |-> c4]
        pace == [op |-> "fillText",
                 text |-> Icon(showEmoji, "bolt") \o calculatePace(rd),
                 x |-> Add(rectX, Mul(colWidth, <<5, 2>>)), y |-> statsY,
                 ctx |-> c4]
    IN  [calls |-> <<frame>> \o topLeft \o <<date, time, distance, pace>>,
         ctx |-> c4]

\* mutant of setSize: the context keeps its state when the canvas is sized
setSizeKeepsContext(before, w, h) ==
    [width |-> w, height |-> h, ctx |-> before.ctx]

\* canvas.width = w; canvas.height = h on the canvas element in state
\* before: an assignment to either, even of the value it has, clears the
\* bitmap and resets the context to its default state
setSize(before, w, h) == [width |-> w, height |-> h, ctx |-> DefaultCtx]

\* mutant of paint: the canvas takes the size of the photo
paintPhotoSized(a, before) ==
    LET sized == setSize(before, a.img.naturalWidth, a.img.naturalHeight)
        c0 == sized.ctx
        clear == [op |-> "clearRect", x |-> Num(0), y |-> Num(0),
                  w |-> Num(a.img.naturalWidth),
                  h |-> Num(a.img.naturalHeight), ctx |-> c0]
        photo == drawPhoto(a.img, a.transform, a.runData, c0)
        overlay == drawOverlay(a.img.naturalWidth, a.img.naturalHeight,
                               a.runData, a.today, photo.ctx)
    IN  [calls |-> <<clear>> \o photo.calls \o overlay.calls,
         canvas |-> [sized EXCEPT !.ctx = overlay.ctx]]

\* drawCanvas past its guards: the canvas is sized (which resets the
\* context), cleared, and the photo and the overlay are drawn
paint(a, before) ==
    LET sized == setSize(before, outputWidth, outputHeight)
        c0 == sized.ctx
        clear == [op |-> "clearRect", x |-> Num(0), y |-> Num(0),
                  w |-> Num(outputWidth), h |-> Num(outputHeight),
                  ctx |-> c0]
        photo == drawPhoto(a.img, a.transform, a.runData, c0)
        overlay == drawOverlay(outputWidth, outputHeight, a.runData, a.today,
                               photo.ctx)
    IN  [calls |-> <<clear>> \o photo.calls \o overlay.calls,
         canvas |-> [sized EXCEPT !.ctx = overlay.ctx]]

\* mutant of drawCanvasRun: the canvas is sized before the guard
drawCanvasRunSizesFirst(a, before) ==
    IF before = NULL \/ a.img = NULL
    THEN [calls |-> <<>>,
          canvas |-> [width |-> outputWidth, height |-> outputHeight,
                      ctx |-> DefaultCtx]]
    ELSE paint(a, before)

\* One run of drawCanvas with the inputs a, on the canvas element in state
\* before (NULL while it is not mounted): the draw calls it issues, in
\* order, and the canvas element afterwards.  getContext('2d') returns the
\* element's one context.
drawCanvasRun(a, before) ==
    IF before = NULL \/ a.img = NULL
    THEN [calls |-> <<>>, canvas |-> before]
    ELSE paint(a, before)

-----------------------------------------------------------------------------
(* drawCanvas run on its own *)

MaxRuns == 2

\* intrinsic sizes of the photo; NULL stands for no photo
Images ==
    {NULL, [naturalWidth |-> 400, naturalHeight |-> 300],
     [naturalWidth |-> 3000, naturalHeight |-> 4000]}

Transforms ==
    [scale : {<<1, 20>>, <<11, 10>>, <<20, 1>>},
     offsetX : {<<0, 1>>, <<-27, 10>>},
     offsetY : {<<0, 1>>, <<27, 5>>}]

RunDatas ==
    [timeHours : {<<"0", "0">>}, timeMinutes : {<<"3", "0">>},
     timeSeconds : {<<"0", "0">>}, distance : {<<"5", ".", "0">>},
     heartRate : {<<>>, <<"0">>, <<"1", "5", "0">>},
     temperature : {<<>>, <<"2", "1">>},
     showEmojis : BOOLEAN,
     filter : {"none", "vivid"}]

\* the dates new Date() may return
Days == {[month |-> 10, day |-> 31], [month |-> 11, day |-> 1]}

InitDraw ==
    /\ Mounted
    /\ args \in [img : Images, transform : Transforms, runData : RunDatas,
                 today : Days]
    /\ result = <<>>

\* the canvas element a run finds: the one the last run left or, for the
\* first run, the element mounted with the photo (none without a photo)
CanvasBefore ==
    IF result # <<>> THEN result[Len(result)].canvas
    ELSE IF args.img = NULL THEN NULL ELSE FreshCanvas

Draw ==
    /\ Len(result) < MaxRuns
    /\ result' = Append(result, drawCanvasRun(args, CanvasBefore))
    /\ UNCHANGED <<app, args>>

\* the date changes between two runs
Midnight ==
    /\ result # <<>>
    /\ \E d \in Days \ {args.today} : args' = [args EXCEPT !.today = d]
    /\ UNCHANGED <<app, result>>

NextDraw == Draw \/ Midnight

SpecDraw == InitDraw /\ [][NextDraw]_vars

-----------------------------------------------------------------------------
(* One drag, by mouse or by one finger, of a photo that is shown: it starts
   at the position args.start with the transform args.from, and the
   container keeps its width *)

\* transforms a drag may start from
DragFrom ==
    {Identity,
     [scale |-> <<11, 10>>, offsetX |-> <<-27, 10>>, offsetY |-> <<27, 5>>]}

InitDrag ==
    /\ args \in [start : Points, from : DragFrom]
    /\ result = NULL
    /\ canvasState = [image |-> 1]
    /\ transform = args.from
    /\ runData = InitialRunData
    /\ view = Snapshot([image |-> 1], args.from, InitialRunData, 1)
    /\ canvas = Composite(view)
    /\ drawn = <<>>
    /\ isDragging = FALSE
    /\ lastMousePos = Origin
    /\ lastPinchDist = NULL
    /\ clientWidth \in Widths
    /\ touches = 0
    /\ loading = {}
    /\ picked = 1
    /\ transformFor = 1
    /\ startWidth = clientWidth
    /\ ev = [type |-> "init", arg |-> 0]
    /\ pre = Refs
    /\ n = 0

NextDrag ==
    \/ n = 0 /\ onMouseDown(args.start)
    \/ n = 0 /\ onTouchStart(1, args.start, 0)
    \/ \E p \in Points : n > 0 /\ touches = 0 /\ onMouseMove(p)
    \/ \E p \in Points : touches = 1 /\ onTouchMove(p, 0)
    \/ n > 0 /\ touches = 0 /\ onMouseUp
    \/ touches = 1 /\ onTouchEnd(0)
    \/ Render

SpecDrag == InitDrag /\ [][NextDrag]_vars

-----------------------------------------------------------------------------
(* One pinch of a photo that is shown: two fingers land args.d0 apart when
   the transform is args.from, and samples follow.  result records whether
   Math.max / Math.min changed the product in some sample. *)

\* finger distances of a pinch: the positive ones
PinchDists == Dists \ {0}

\* Math.max(0.05, Math.min(20, prev.scale * ratio)) is not prev.scale * ratio
\* for the sample d
ClampTakesEffect(d) ==
    /\ ~Falsy(lastPinchDist)
    /\ Clamp(Mul(transform.scale, Div(Num(d), lastPinchDist)))
           # Mul(transform.scale, Div(Num(d), lastPinchDist))

InitPinch ==
    /\ args \in [d0 : PinchDists, from : DragFrom]
    /\ result = FALSE
    /\ canvasState = [image |-> 1]
    /\ transform = args.from
    /\ runData = InitialRunData
    /\ view = Snapshot([image |-> 1], args.from, InitialRunData, 1)
    /\ canvas = Composite(view)
    /\ drawn = <<>>
    /\ isDragging = FALSE
    /\ lastMousePos = Origin
    /\ lastPinchDist = NULL
    /\ clientWidth \in Widths
    /\ touches = 0
    /\ loading = {}
    /\ picked = 1
    /\ transformFor = 1
    /\ startWidth = clientWidth
    /\ ev = [type |-> "init", arg |-> 0]
    /\ pre = Refs
    /\ n = 0

\* onTouchMove with two contacts d apart
onPinchMove(d) ==
    /\ touches = 2
    /\ n < MaxEvents
    /\ n' = n + 1
    /\ ev' = [type |-> "touchmove", arg |-> d]
    /\ pre' = Refs
    /\ handlePinch(Num(d))
    /\ result' = (result \/ ClampTakesEffect(d))
    /\ Deferred
    /\ UNCHANGED <<Rest, touches, args>>

NextPinch ==
    \/ n = 0 /\ onTouchStart(2, Origin, args.d0)
    \/ \E d \in PinchDists : onPinchMove(d)
    \/ touches = 2 /\ onTouchEnd(0)
    \/ Render

SpecPinch == InitPinch /\ [][NextPinch]_vars

-----------------------------------------------------------------------------
(* The service worker (sw.js).  args is what the worker finds: the caches
   of the origin and the assets whose request fails; result is the worker:
   its lifecycle phase, the origin's caches (name -> urls stored) and the
   answer to the last fetch event. *)

CACHE_NAME == "runsnap-v2"

ASSETS == <<"./", "./index.html", "./manifest.json">>

\* cache names an earlier version or another script of the origin may
\* have left
CacheNames == {"runsnap-v1", "runsnap-v2", "workbox"}

\* what a cache that exists before the installation holds
Stored == {"./index.html", "./index.css"}

\* the urls of fetch events
Requests == {"./", "./index.html", "./index.css", "https://cdn/tailwind.js"}

InitSW ==
    /\ Mounted
    /\ args \in [existing : SUBSET CacheNames,
                 failing : SUBSET {ASSETS[i] : i \in 1..Len(ASSETS)}]
    /\ result = [phase |-> "parsed",
                 caches |-> [name \in args.existing |-> Stored],
                 served |-> NULL]

\* caches.open(name): the cache is created when there is none
open(caches, name) ==
    IF name \in DOMAIN caches THEN caches ELSE caches @@ (name :> {})

\* cache.add(asset): the asset is fetched and, when that succeeds, stored
add(asset) == IF asset \in args.failing THEN "rejected" ELSE "fulfilled"

\* Promise.allSettled: fulfilled once every promise has settled
allSettled(outcomes) == "fulfilled"

\* the install listener; the installation succeeds when the promise given
\* to event.waitUntil is fulfilled
install ==
    /\ result.phase = "parsed"
    /\ LET opened == open(result.caches, CACHE_NAME)
           outcomes == [i \in 1..Len(ASSETS) |-> add(ASSETS[i])]
           added == {ASSETS[i] : i \in {j \in 1..Len(ASSETS) :
                                           outcomes[j] = "fulfilled"}}
       IN  result' =
               [result EXCEPT
                   !.caches = [opened EXCEPT ![CACHE_NAME] = @ \cup added],
                   !.phase = IF allSettled(outcomes) = "fulfilled"
                             THEN "installed" ELSE "redundant"]
    /\ UNCHANGED <<app, args>>

\* mutant of Outdated: every cache is deleted
OutdatedAll(key) == TRUE

\* key !== CACHE_NAME
Outdated(key) == key # CACHE_NAME

\* the activate listener: caches.delete for every outdated key
activate ==
    /\ result.phase = "installed"
    /\ LET keys == DOMAIN result.caches
           deleted == {key \in keys : Outdated(key)}
       IN  result' =
               [result EXCEPT
                   !.caches = [key \in keys \ deleted |-> result.caches[key]],
                   !.phase = "activated"]
    /\ UNCHANGED <<app, args>>

\* caches.match(request): the stored response of some cache, or undefined
match(caches, request) ==
    IF \E name \in DOMAIN caches : request \in caches[name]
    THEN [url |-> request, from |-> "cache"]
    ELSE NULL

\* fetch(request).catch(() => {}): the network's response, or undefined
fetchOrUndefined(request, online) ==
    IF online THEN [url |-> request, from |-> "network"] ELSE NULL

\* the fetch listener, for a request made while the network is reachable
\* (online) or not
onFetch(request, online) ==
    /\ result.phase = "activated"
    /\ LET response == match(result.caches, request)
       IN  result' =
               [result EXCEPT
                   !.served =
                       [request |-> request, online |-> online,
                        response |-> IF response # NULL THEN response
                                     ELSE fetchOrUndefined(request, online)]]
    /\ UNCHANGED <<app, args>>

NextSW ==
    \/ install
    \/ activate
    \/ \E request \in Requests : \E online \in BOOLEAN :
          onFetch(request, online)

SpecSW == InitSW /\ [][NextSW]_vars

\* the browser dispatches install to a registered worker and, the worker
\* having called skipWaiting, activate once the installation succeeded
SpecSWLive == SpecSW /\ WF_vars(install) /\ WF_vars(activate)

-----------------------------------------------------------------------------
(* The overlay at another output resolution: outputWidth and outputHeight
   multiplied by a factor *)

MaxFactor == 3

InitOverlay ==
    /\ Mounted
    /\ args \in [k : 1..MaxFactor, runData : RunDatas, today : Days]
    /\ result = NULL

\* the overlay is drawn at 1080 by 1920 and at k times that
DrawOverlays ==
    /\ result = NULL
    /\ result' =
          [base |-> drawOverlay(outputWidth, outputHeight, args.runData,
                                args.today, DefaultCtx),
           scaled |-> drawOverlay(args.k * outputWidth,
                                  args.k * outputHeight, args.runData,
                                  args.today, DefaultCtx)]
    /\ UNCHANGED <<app, args>>

SpecOverlay == InitOverlay /\ [][DrawOverlays]_vars

-----------------------------------------------------------------------------
(* The stats form on its own: the text typed in the four number inputs, the
   values the inputs report, and the time and pace labels drawn from them *)

\* the characters of s are all decimal digits
AllDigits(s) == \A i \in 1..Len(s) : IsDigit(s[i])

\* r is an exponent: e or E, a sign or none, and digits
IsExponent(r) ==
    /\ r # <<>>
    /\ Head(r) \in {"e", "E"}
    /\ Drop(r, IF Signed(Tail(r)) THEN 2 ELSE 1) # <<>>
    /\ AllDigits(Drop(r, IF Signed(Tail(r)) THEN 2 ELSE 1))

\* s is digits, digits with a fraction, or a fraction alone
IsMantissa(s) ==
    IF DigitsPrefix(s) = s THEN s # <<>>
    ELSE /\ s[Len(DigitsPrefix(s)) + 1] = "."
         /\ Drop(s, Len(DigitsPrefix(s)) + 1) # <<>>
         /\ AllDigits(Drop(s, Len(DigitsPrefix(s)) + 1))

\* body, a text without sign, is a mantissa with an exponent or none
IsUnsignedFloat(body) ==
    \E k \in 1..Len(body) :
        /\ IsMantissa(SubSeq(body, 1, k))
        /\ k = Len(body) \/ IsExponent(Drop(body, k))

\* The value an <input type="number"> reports for the text typed in it:
\* the text itself if it is a valid floating-point number (a minus sign or
\* none, a mantissa, an exponent or none), the empty string if it is not.
numberInputValue(text) ==
    IF IsUnsignedFloat(IF text # <<>> /\ Head(text) = "-" THEN Tail(text)
                       ELSE text)
    THEN text
    ELSE <<>>

\* texts typed in the hours, minutes, seconds and distance inputs
HourTexts ==
    {<<>>, <<"0">>, <<"0", "0">>, <<"1">>, <<"0", "0", "7">>, <<"x">>}

MinuteTexts ==
    {<<>>, <<"5">>, <<"3", "0">>, <<"6">>, <<"3", "9">>, <<"4", "0">>,
     <<"5", "0">>, <<"0", "0", "7">>, <<"a", "b">>}

SecondTexts == {<<>>, <<"3">>, <<"0", "0">>, <<"3", "6">>, <<"5", "9">>}

DistanceTexts ==
    {<<>>, <<"0">>, <<"5", ".", "0">>, <<"1", ".", "1">>, <<"1">>,
     <<"-", "2">>, <<"a", "b", "c">>, <<"1", "e", "1">>}

InitStats ==
    /\ Mounted
    /\ args \in [timeHours : HourTexts, timeMinutes : MinuteTexts,
                 timeSeconds : SecondTexts, distance : DistanceTexts]
    /\ result = NULL

\* runData once the change event of each input has been handled: each
\* field holds what its input reports
typedRunData(texts) == [f \in DOMAIN texts |-> numberInputValue(texts[f])]

\* the two labels drawCanvas derives from runData
statLabels(rd) ==
    [runData |-> rd, time |-> timeDisplay(rd), pace |-> calculatePace(rd)]

\* the texts are typed and the render that follows derives the labels
ShowStats ==
    /\ result = NULL
    /\ result' = statLabels(typedRunData(args))
    /\ UNCHANGED <<app, args>>

SpecStats == InitStats /\ [][ShowStats]_vars

-----------------------------------------------------------------------------
(* Properties *)

ScaleInRange(s) == s[2] > 0 /\ s[1] * 20 >= s[2] /\ s[1] <= 20 * s[2]

\* x limited to [0.05, 20]
Limited(x) ==
    IF Lt(x, <<1, 20>>) THEN <<1, 20>>
    ELSE IF Lt(<<20, 1>>, x) THEN <<20, 1>> ELSE x

\* the last step handled a single-contact move sample (mouse or touch)
IsMoveSample == ev.type = "mousemove" \/ (ev.type = "touchmove" /\ touches = 1)

\* the last step handled a two-contact move sample
IsPinchSample == ev.type = "touchmove" /\ touches = 2

\* C1: in every reachable state the scale lies in [0.05, 20]: the hook's
\* value, the value the last render captured and the one the canvas shows.
C1_ScaleInRange ==
    /\ ScaleInRange(transform.scale)
    /\ ScaleInRange(view.transform.scale)
    /\ canvas # NULL => ScaleInRange(canvas.transform.scale)

\* a pinch sample whose product left the range and was limited to 20
C1_Witness ==
    /\ IsPinchSample
    /\ ~Falsy(pre.lastPinchDist)
    /\ Lt(<<20, 1>>,
          Mul(pre.transform.scale, Div(Num(ev.arg), pre.lastPinchDist)))
    /\ transform.scale = <<20, 1>>

\* C2: when img.onload has run, the transform is exactly
\* {scale: 1, offsetX: 0, offsetY: 0} and the image is the decoded one,
\* whatever the transform was before.
C2_LoadResetsTransform ==
    ev.type = "load" =>
        /\ transform = [scale |-> <<1, 1>>, offsetX |-> <<0, 1>>,
                        offsetY |-> <<0, 1>>]
        /\ canvasState.image = ev.arg

\* a photo loaded while the photo on screen was zoomed
C2_Witness ==
    /\ ev.type = "load"
    /\ view.image # 0
    /\ pre.transform.scale # <<1, 1>>
    /\ transform.scale = <<1, 1>>

StaleCanvas ==
    /\ view.image # 0
    /\ \/ canvasState.image # view.image
       \/ transform # view.transform
       \/ runData # view.runData

C5_DragDelta ==
    (IsMoveSample /\ pre.isDragging /\ view.image # 0) =>
        LET dx == lastMousePos.x - pre.lastMousePos.x
            dy == lastMousePos.y - pre.lastMousePos.y
        IN  /\ transform.offsetX =
                   Add(pre.transform.offsetX, Norm(dx * 1080, clientWidth))
            /\ transform.offsetY =
                   Add(pre.transform.offsetY, Norm(dy * 1080, clientWidth))
            /\ transform.scale = pre.transform.scale
            /\ clientWidth = 360 =>
                  /\ transform.offsetX = Add(pre.transform.offsetX, Num(3 * dx))
                  /\ transform.offsetY = Add(pre.transform.offsetY, Num(3 * dy))

\* a sample that moved the pointer in x and y on a surface 360 wide
C5_Witness ==
    /\ IsMoveSample
    /\ pre.isDragging
    /\ view.image # 0
    /\ clientWidth = 360
    /\ lastMousePos.x # pre.lastMousePos.x
    /\ lastMousePos.y # pre.lastMousePos.y

\* C6: a move sample handled after the displayed width changed during the
\* drag is scaled by 1080 over the current width, not by 1080 over the width
\* the drag began with.
C6_CurrentWidth ==
    (IsMoveSample /\ pre.isDragging /\ view.image # 0
        /\ clientWidth # startWidth) =>
        LET dx == lastMousePos.x - pre.lastMousePos.x
            dy == lastMousePos.y - pre.lastMousePos.y
        IN  /\ Sub(transform.offsetX, pre.transform.offsetX) =
                   Norm(dx * 1080, clientWidth)
            /\ Sub(transform.offsetY, pre.transform.offsetY) =
                   Norm(dy * 1080, clientWidth)
            /\ dx # 0 => Sub(transform.offsetX, pre.transform.offsetX) #
                             Norm(dx * 1080, startWidth)

\* a sample that moved the pointer after the surface was resized in the drag
C6_Witness ==
    /\ IsMoveSample
    /\ pre.isDragging
    /\ view.image # 0
    /\ clientWidth # startWidth
    /\ lastMousePos.x # pre.lastMousePos.x

\* C7: a pinch sample that finds the baseline null or zero only records its
\* distance as the baseline: the transform is unchanged and the scale stays
\* a finite number.
C7_BaselineOnly ==
    (IsPinchSample /\ (pre.lastPinchDist = NULL \/ pre.lastPinchDist = <<0, 1>>))
        => /\ transform = pre.transform
           /\ lastPinchDist = <<ev.arg, 1>>
           /\ transform.scale[2] # 0

\* a sample with a non-zero distance that found the baseline zero
C7_Witness ==
    /\ IsPinchSample
    /\ pre.lastPinchDist = <<0, 1>>
    /\ ev.arg # 0
    /\ lastPinchDist = <<ev.arg, 1>>

\* C8: a pinch sample with distance d that finds a non-zero baseline b sets
\* the scale to scale * d / b limited to [0.05, 20] and the baseline to d;
\* a touch start with two contacts sets the baseline to their distance.
C8_PinchScales ==
    /\ (IsPinchSample /\ pre.lastPinchDist # NULL
           /\ pre.lastPinchDist # <<0, 1>>) =>
          LET b == pre.lastPinchDist
              s == pre.transform.scale
          IN  /\ transform.scale =
                     Limited(Norm(s[1] * ev.arg * b[2], s[2] * b[1]))
              /\ lastPinchDist = <<ev.arg, 1>>
    /\ (ev.type = "touchstart" /\ touches = 2) => lastPinchDist = <<ev.arg, 1>>

\* the first move sample after a two-contact touch start at distance 2 came
\* at distance 3 and scaled the photo by 3/2
C8_Witness ==
    /\ IsPinchSample
    /\ n = 2
    /\ pre.lastPinchDist = <<2, 1>>
    /\ ev.arg = 3
    /\ transform.scale = <<3, 2>>

\* C9: with a photo loaded a wheel event multiplies the scale by 0.9 when
\* deltaY > 0 and by 1.1 otherwise (deltaY = 0 included) and limits it to
\* [0.05, 20]; with no photo loaded it leaves the transform as it was.
C9_WheelFactor ==
    ev.type = "wheel" =>
        IF view.image # 0
        THEN LET f == IF ev.arg > 0 THEN <<9, 10>> ELSE <<11, 10>>
             IN  transform.scale = Limited(Mul(pre.transform.scale, f))
        ELSE transform = pre.transform

\* a wheel event with deltaY = 0 zoomed in
C9_Witness ==
    /\ ev.type = "wheel"
    /\ ev.arg = 0
    /\ view.image # 0
    /\ transform.scale = Mul(pre.transform.scale, <<11, 10>>)

\* C10: a wheel event or a pinch sample leaves offsetX and offsetY as they
\* were; the offset changes only in a drag move, a reset-button click or a
\* photo load.
C10_ZoomKeepsOffset ==
    /\ (ev.type = "wheel" \/ IsPinchSample) =>
          /\ transform.offsetX = pre.transform.offsetX
          /\ transform.offsetY = pre.transform.offsetY
    /\ (transform.offsetX # pre.transform.offsetX
           \/ transform.offsetY # pre.transform.offsetY) =>
          (IsMoveSample \/ ev.type = "reset" \/ ev.type = "load")

\* a zoom changed the scale of a photo that had been dragged off centre
C10_Witness ==
    /\ ev.type = "wheel" \/ IsPinchSample
    /\ transform.scale # pre.transform.scale
    /\ transform.offsetX # <<0, 1>>
    /\ transform.offsetY # <<0, 1>>


\* C11: a wheel event leaves the gesture session as it was: the dragging
\* flag, the last pointer position and the pinch baseline after the handler
\* are those before it, so the move samples that follow take their deltas and
\* ratios (C5, C8) from the same origin and baseline as without the wheel.
C11_WheelKeepsSession ==
    ev.type = "wheel" =>
        /\ isDragging = pre.isDragging
        /\ lastMousePos = pre.lastMousePos
        /\ lastPinchDist = pre.lastPinchDist

\* a wheel event zoomed the photo in the middle of a drag and a pinch
C11_Witness ==
    /\ ev.type = "wheel"
    /\ isDragging
    /\ lastPinchDist # NULL
    /\ transform.scale # pre.transform.scale


\* C12: the clamp is idempotent, is the identity on [0.05, 20] and is
\* monotonic: for inputs x and y, clamp(clamp(x)) = clamp(x); clamp(x) = x
\* when 0.05 <= x <= 20; and x <= y implies clamp(x) <= clamp(y).
C12_ClampIdempotentMonotonic ==
    result # NULL =>
        /\ result.xx = result.x
        /\ (Le(MinScale, args[1]) /\ Le(args[1], MaxScale)) =>
              result.x = args[1]
        /\ Le(args[1], args[2]) => Le(result.x, result.y)

\* the clamp was applied to a value below the range and to one inside it
C12_Witness ==
    /\ result # NULL
    /\ Lt(args[1], MinScale)
    /\ result.x # args[1]
    /\ Lt(MinScale, args[2])
    /\ Lt(args[2], MaxScale)
    /\ result.y = args[2]


\* C13 (as claimed): a single-contact touch move that arrives while a pinch
\* baseline is set changes neither offsetX nor offsetY.
C13_StrayMoveIgnored ==
    (ev.type = "touchmove" /\ touches = 1 /\ ~Falsy(pre.lastPinchDist)) =>
        /\ transform.offsetX = pre.transform.offsetX
        /\ transform.offsetY = pre.transform.offsetY

\* no contact is down and no drag is going on
Idle(r) == r.touches = 0 /\ ~r.isDragging

\* C14: mouse up, mouse leave and touch end clear the dragging flag, touch
\* end also sets the pinch baseline to null; with every contact released the
\* controller is idle, and a move event handled while it is idle changes
\* nothing of the transform and leaves it idle; only a mouse down or a touch
\* start ends the idle state.
C14_IdleAfterRelease ==
    /\ ev.type \in {"mouseup", "mouseleave", "touchend"} => ~isDragging
    /\ ev.type = "touchend" => lastPinchDist = NULL
    /\ (ev.type \in {"mouseup", "mouseleave", "touchend"} /\ touches = 0) =>
          Idle(Refs)
    /\ (ev.type \in {"mousemove", "touchmove"} /\ Idle(pre)) =>
          transform = pre.transform /\ Idle(Refs)
    /\ (Idle(pre) /\ ~Idle(Refs) /\ ev.type # "init") =>
          ev.type \in {"mousedown", "touchstart"}

\* after a drag moved the photo and the button was released, a mouse move
\* was handled
C14_Witness ==
    /\ ev.type = "mousemove"
    /\ Idle(pre)
    /\ view.image # 0
    /\ transform.offsetX # <<0, 1>>

\* C15 (as claimed): a touch start or touch end that changes the number of
\* contacts resets the session: going from 1 to 2 contacts clears the dragging
\* flag, going from 2 to 3 clears the pinch baseline, and a removed contact
\* clears both.
C15_ResetOnCountChange ==
    ev.type \in {"touchstart", "touchend"} =>
        /\ (pre.touches = 1 /\ touches = 2) => ~isDragging
        /\ (pre.touches = 2 /\ touches = 3) => lastPinchDist = NULL
        /\ touches < pre.touches => ~isDragging /\ lastPinchDist = NULL


\* C16 (as claimed): scale, offsetX and offsetY change only in a move, pinch
\* or wheel sample or in a photo load.
C16_Original ==
    transform # pre.transform =>
        ev.type \in {"mousemove", "touchmove", "wheel", "load"}

\* C16: scale, offsetX and offsetY change only in a move, pinch or wheel
\* sample, in a photo load or in a press of the reset-position button; no
\* stat edit, emoji toggle, filter selection, download, file pick, resize or
\* render changes them.
C16_TransformWriters ==
    /\ transform # pre.transform =>
          ev.type \in {"mousemove", "touchmove", "wheel", "load", "reset"}
    /\ ev.type \in {"input", "filter", "download", "pick"} =>
          transform = pre.transform

\* a stat field, the emoji flag or the filter was changed, or the composite
\* downloaded, while the photo was zoomed and dragged off centre
C16_Witness ==
    /\ ev.type \in {"input", "filter", "download"}
    /\ transform.scale # <<1, 1>>
    /\ transform.offsetX # <<0, 1>>
    /\ transform = pre.transform


\* the calls of a run whose operation is op, in order
CallsOf(run, op) == SelectSeq(run.calls, LAMBDA c : c.op = op)

\* C17: whenever a photo is loaded, a run draws it once, as a rectangle of
\* width naturalWidth * scale and height naturalHeight * scale whose centre
\* is the canvas centre (540, 960) moved by (offsetX, offsetY): twice its
\* left edge plus its width is 1080 + 2 * offsetX, and likewise for its top.
C17_PhotoRect ==
    \A i \in 1..Len(result) :
        args.img # NULL =>
            LET photos == CallsOf(result[i], "drawImage")
                s == args.transform.scale
            IN  /\ Len(photos) = 1
                /\ photos[1].w = Norm(args.img.naturalWidth * s[1], s[2])
                /\ photos[1].h = Norm(args.img.naturalHeight * s[1], s[2])
                /\ Add(Mul(Num(2), photos[1].x), photos[1].w) =
                      Add(Num(1080), Mul(Num(2), args.transform.offsetX))
                /\ Add(Mul(Num(2), photos[1].y), photos[1].h) =
                      Add(Num(1920), Mul(Num(2), args.transform.offsetY))

\* a photo was drawn zoomed and dragged off centre
C17_Witness ==
    /\ result # <<>>
    /\ args.img # NULL
    /\ args.transform.scale # <<1, 1>>
    /\ args.transform.offsetX # <<0, 1>>
    /\ args.transform.offsetY # <<0, 1>>

\* C18: while no photo is loaded a run of drawCanvas issues no call and
\* leaves the canvas as it was (no size is set), whatever the stats, the
\* filter and the transform.
C18_NoPhotoNoOp ==
    \A i \in 1..Len(result) :
        args.img = NULL =>
            /\ result[i].calls = <<>>
            /\ result[i].canvas = NULL

\* drawCanvas ran with no photo, a filter selected, a heart rate entered and
\* a transform other than the identity
C18_Witness ==
    /\ result # <<>>
    /\ args.img = NULL
    /\ args.runData.filter # "none"
    /\ args.runData.heartRate # <<>>
    /\ args.transform # Identity

\* the overlay's calls: the frame border and the labels
IsOverlayCall(c) == c.op \in {"strokeRect", "fillText"}

\* C19: every overlay call (frame border and labels) is issued with the
\* context's filter at 'none', and the photo is drawn with the css filter
\* of the selected entry of FILTERS.
C19_FilterPhotoOnly ==
    \A i \in 1..Len(result) :
        \A k \in 1..Len(result[i].calls) :
            LET c == result[i].calls[k]
            IN  /\ IsOverlayCall(c) => c.ctx.filter = "none"
                /\ c.op = "drawImage" =>
                      \E f \in 1..Len(FILTERS) :
                          /\ FILTERS[f].id = args.runData.filter
                          /\ FILTERS[f].cssFilter = c.ctx.filter

\* with a filter other than 'none' selected, the photo, the frame, the
\* heart-rate / temperature label, the date and the three stats were drawn
C19_Witness ==
    /\ result # <<>>
    /\ args.runData.filter # "none"
    /\ args.img # NULL
    /\ Len(CallsOf(result[1], "drawImage")) = 1
    /\ CallsOf(result[1], "drawImage")[1].ctx.filter # "none"
    /\ Len(CallsOf(result[1], "strokeRect")) = 1
    /\ Len(CallsOf(result[1], "fillText")) = 5

\* C20 (as claimed): two runs of drawCanvas with the same photo, transform,
\* stats and filter issue the same calls with the same arguments.
C20_Deterministic ==
    Len(result) >= 2 => result[1].calls = result[2].calls

\* C21: every run of drawCanvas that draws leaves the canvas 1080 wide and
\* 1920 high and clears exactly that area, whatever the photo's intrinsic
\* size, the transform and the displayed width of the preview container.
C21_OutputSize ==
    \A i \in 1..Len(result) :
        args.img # NULL =>
            /\ result[i].canvas.width = 1080
            /\ result[i].canvas.height = 1920
            /\ \A k \in 1..Len(CallsOf(result[i], "clearRect")) :
                   LET c == CallsOf(result[i], "clearRect")[k]
                   IN  <<c.x, c.y, c.w, c.h>> =
                           <<Num(0), Num(0), Num(1080), Num(1920)>>

\* a portrait photo larger than the output was drawn, zoomed, on the canvas
\* element as mounted (300 by 150), in the narrower preview container
C21_Witness ==
    /\ Len(result) = 1
    /\ args.img # NULL
    /\ args.img.naturalWidth = 3000
    /\ args.transform.scale = <<11, 10>>
    /\ clientWidth = 360
    /\ CanvasBefore.width = 1080

RECURSIVE SplitColon(_)
\* the parts of s that its colons separate
SplitColon(s) ==
    IF \A i \in 1..Len(s) : s[i] # ":" THEN <<s>>
    ELSE LET k == CHOOSE k \in 1..Len(s) :
                      s[k] = ":" /\ \A j \in 1..(k - 1) : s[j] # ":"
         IN  <<SubSeq(s, 1, k - 1)>> \o SplitColon(Drop(s, k))

\* part shows the number written by the digits d, padded with zeros to two
\* characters when it is shorter
ShowsPadded(part, d) ==
    /\ AllDigits(part)
    /\ DigitsValue(part, 0) = DigitsValue(d, 0)
    /\ Len(part) = IF Len(d) < 2 THEN 2 ELSE Len(d)

\* C22: for minutes and seconds given in digits and hours given in digits
\* or left empty, the time label is minutes ":" seconds, each zero-padded
\* to two digits, preceded by the zero-padded hours and ":" exactly when
\* the hours are more than zero; 5 min 3 s reads "05:03" for hours "0",
\* "00" and "", and "01:05:03" for hours "1".
C22_TimeLabel ==
    (/\ result # NULL
     /\ AllDigits(args.timeHours)
     /\ AllDigits(args.timeMinutes) /\ args.timeMinutes # <<>>
     /\ AllDigits(args.timeSeconds) /\ args.timeSeconds # <<>>)
    => LET parts == SplitColon(result.time)
           h == DigitsValue(args.timeHours, 0)
           last == Len(parts)
       IN  /\ last = IF h > 0 THEN 3 ELSE 2
           /\ ShowsPadded(parts[last], args.timeSeconds)
           /\ ShowsPadded(parts[last - 1], args.timeMinutes)
           /\ h > 0 => ShowsPadded(parts[1], IntToString(h))
           /\ (args.timeMinutes = <<"5">> /\ args.timeSeconds = <<"3">>
               /\ h <= 1)
              => result.time = IF h = 0
                               THEN <<"0", "5", ":", "0", "3">>
                               ELSE <<"0", "1", ":", "0", "5", ":", "0",
                                      "3">>

\* 1 h 5 min 3 s was typed and the label reads 01:05:03
C22_Witness ==
    /\ result # NULL
    /\ args.timeHours = <<"1">>
    /\ args.timeMinutes = <<"5">>
    /\ args.timeSeconds = <<"3">>
    /\ result.time = <<"0", "1", ":", "0", "5", ":", "0", "3">>

\* the time fields are written in digits, or left empty
TimeInDigits ==
    /\ AllDigits(args.timeHours)
    /\ AllDigits(args.timeMinutes)
    /\ AllDigits(args.timeSeconds)

\* the elapsed seconds the typed time stands for
ElapsedSeconds ==
    3600 * DigitsValue(args.timeHours, 0)
    + 60 * DigitsValue(args.timeMinutes, 0) + DigitsValue(args.timeSeconds, 0)

\* the distance the distance input reports, as the exact decimal fraction
TypedDistance == parseFloat(numberInputValue(args.distance))

\* whole seconds per kilometre: the floor of elapsed time over distance
PaceSeconds == (ElapsedSeconds * TypedDistance[2]) \div TypedDistance[1]

\* C23 (as claimed): for a distance above zero the pace label is M'SS" with
\* M = floor(pace_seconds / 60) and SS = floor(pace_seconds mod 60) on two
\* digits, where pace_seconds is the elapsed time over the distance; 5.0 km
\* in 30:00 reads 6'00".  (Paces of 100 minutes or more are left to C25.)
C23_PaceFormula ==
    (/\ result # NULL
     /\ TimeInDigits
     /\ Lt(Num(0), TypedDistance)
     /\ PaceSeconds \div 60 < 100)
    => result.pace = IntToString(PaceSeconds \div 60) \o <<"'">>
                     \o padStart(IntToString(PaceSeconds % 60), 2, "0")
                     \o <<"\"">>

\* C24: when the distance typed is zero, negative, empty or no number, the
\* pace label is the placeholder -'--" whatever is typed as the time.
C24_NoDistancePlaceholder ==
    (/\ result # NULL
     /\ IsNaN(TypedDistance) \/ Le(TypedDistance, Num(0)))
    => result.pace = <<"-", "'", "-", "-", "\"">>

\* letters were typed as the distance, with a time of 1 h 30 min 59 s
C24_Witness ==
    /\ result # NULL
    /\ args.distance = <<"a", "b", "c">>
    /\ result.runData.distance = <<>>
    /\ TimeInDigits
    /\ ElapsedSeconds = 5459
    /\ result.pace = <<"-", "'", "-", "-", "\"">>

\* C25 (as claimed): for a distance above zero, the pace label is the
\* placeholder --'--" whenever the derived pace is 100 minutes per
\* kilometre or more, and a number whenever it is less.
C25_PaceLimit ==
    (/\ result # NULL
     /\ TimeInDigits
     /\ Lt(Num(0), TypedDistance))
    => IF PaceSeconds \div 60 >= 100
       THEN result.pace = <<"-", "-", "'", "-", "-", "\"">>
       ELSE IsDigit(Head(result.pace))

\* the texts typed, with "0" in place of each that is empty or no number
ZeroFilled ==
    [f \in DOMAIN args |->
        IF numberInputValue(args[f]) = <<>> THEN <<"0">> ELSE args[f]]

\* C26: a field whose text is empty or no number counts as zero in the
\* time label and in the pace: both labels are those that "0" typed in
\* that field gives.  Letters typed as the minutes of 1 h .. min 3 s over
\* 1 km read 01:00:03, and the pace is that of 3603 s, 60'03".
C26_BlankIsZero ==
    result # NULL =>
        /\ result.time = timeDisplay(typedRunData(ZeroFilled))
        /\ result.pace = calculatePace(typedRunData(ZeroFilled))
        /\ (/\ args.timeHours = <<"1">>
            /\ numberInputValue(args.timeMinutes) = <<>>
            /\ args.timeSeconds = <<"3">>
            /\ args.distance = <<"1">>)
           => /\ result.time = <<"0", "1", ":", "0", "0", ":", "0", "3">>
              /\ result.pace = <<"6", "0", "'", "0", "3", "\"">>

\* letters were typed as the minutes of a run of 1 km: they read 00 in the
\* time label and add nothing to the pace
C26_Witness ==
    /\ result # NULL
    /\ args.timeMinutes = <<"a", "b">>
    /\ args.timeHours = <<"1">>
    /\ args.timeSeconds = <<"3">>
    /\ args.distance = <<"1">>
    /\ result.time = <<"0", "1", ":", "0", "0", ":", "0", "3">>
    /\ result.pace = <<"6", "0", "'", "0", "3", "\"">>

\* sub occurs in text
Contains(text, sub) ==
    \E k \in 0..(Len(text) - Len(sub)) :
        SubSeq(text, k + 1, k + Len(sub)) = sub

\* the labels of a run drawn left-aligned: those of the frame's top left
TopLeftCalls(run) ==
    SelectSeq(run.calls,
              LAMBDA c : c.op = "fillText" /\ c.ctx.textAlign = "left")

\* C27: in every run that draws, the heart-rate label is part of the
\* top-left text exactly when the heartRate field is not empty, and the
\* temperature label exactly when the temperature field is not empty; with
\* both empty there is no top-left fillText at all, and the run issues the
\* four other labels only.
C27_SecondaryMetrics ==
    \A i \in 1..Len(result) :
        args.img # NULL =>
            LET tl == TopLeftCalls(result[i])
                rd == args.runData
            IN  /\ Len(tl) = IF rd.heartRate = <<>> /\ rd.temperature = <<>>
                             THEN 0 ELSE 1
                /\ Len(CallsOf(result[i], "fillText")) = 4 + Len(tl)
                /\ \A k \in 1..Len(tl) :
                       /\ tl[k].text # <<>>
                       /\ Contains(tl[k].text, rd.heartRate
                                               \o <<" ", "b", "p", "m">>)
                          <=> rd.heartRate # <<>>
                       /\ Contains(tl[k].text, <<"b", "p", "m">>)
                          <=> rd.heartRate # <<>>
                       /\ Contains(tl[k].text, rd.temperature
                                               \o <<"deg", "C">>)
                          <=> rd.temperature # <<>>
                       /\ Contains(tl[k].text, <<"deg", "C">>)
                          <=> rd.temperature # <<>>

\* a run drew the heart rate "0" without the temperature
C27_Witness ==
    /\ result # <<>>
    /\ args.img # NULL
    /\ args.runData.heartRate = <<"0">>
    /\ args.runData.temperature = <<>>
    /\ Len(TopLeftCalls(result[1])) = 1
    /\ Contains(TopLeftCalls(result[1])[1].text, <<"0", " ", "b", "p", "m">>)

\* the icon glyphs, by name
Glyphs == {"heart", "thermometer", "stopwatch", "pin", "bolt"}

\* where the glyphs stand in text
GlyphsAt(text) == {k \in 1..Len(text) : text[k] \in Glyphs}

\* the three labels of the stats row of a run: they are drawn centred
StatsRow(run) ==
    SelectSeq(run.calls,
              LAMBDA c : c.op = "fillText" /\ c.ctx.textAlign = "center")

\* C28: in every run that draws, with showEmojis set each stat label starts
\* with its own glyph and a blank (the heart for the heart rate, the
\* thermometer for the temperature, the stopwatch for the time, the pin
\* for the distance, the bolt for the pace) and holds no other glyph; with
\* showEmojis clear no stat label holds a glyph.
C28_IconsUniform ==
    \A i \in 1..Len(result) :
        args.img # NULL =>
            LET rd == args.runData
                row == StatsRow(result[i])
                tl == TopLeftCalls(result[i])
                rowGlyphs == <<"stopwatch", "pin", "bolt">>
            IN  /\ Len(row) = 3
                /\ \A k \in 1..3 :
                       IF rd.showEmojis
                       THEN /\ GlyphsAt(row[k].text) = {1}
                            /\ SubSeq(row[k].text, 1, 2) =
                                  <<rowGlyphs[k], " ">>
                       ELSE GlyphsAt(row[k].text) = {}
                /\ \A k \in 1..Len(tl) :
                       IF rd.showEmojis
                       THEN /\ rd.heartRate # <<>> =>
                                  Contains(tl[k].text,
                                           <<"heart", " ">> \o rd.heartRate)
                            /\ rd.temperature # <<>> =>
                                  Contains(tl[k].text,
                                           <<"thermometer", " ">>
                                           \o rd.temperature)
                            /\ 1 \in GlyphsAt(tl[k].text)
                            /\ Cardinality(GlyphsAt(tl[k].text)) =
                                  Len(topLeftParts(rd))
                       ELSE GlyphsAt(tl[k].text) = {}

\* the icons were switched off and all five stat labels were drawn, none
\* with a glyph
C28_Witness ==
    /\ result # <<>>
    /\ args.img # NULL
    /\ ~args.runData.showEmojis
    /\ args.runData.heartRate # <<>>
    /\ args.runData.temperature # <<>>
    /\ Len(StatsRow(result[1])) = 3
    /\ Len(TopLeftCalls(result[1])) = 1
    /\ GlyphsAt(TopLeftCalls(result[1])[1].text) = {}

\* the lengths a call is issued with: its position, for the frame its side,
\* and the font size, border thickness and shadow of the context
Lengths(c) ==
    <<c.x, c.y>>
    \o (IF c.op = "strokeRect" THEN <<c.w, c.h>> ELSE <<>>)
    \o <<c.ctx.font.size, c.ctx.lineWidth, c.ctx.shadowBlur,
         c.ctx.shadowOffsetX, c.ctx.shadowOffsetY>>

\* C29 (as claimed): with the output width and height multiplied by k, the
\* overlay issues the same calls with every length multiplied by k: frame
\* position and side, label positions (margins), font sizes, border
\* thickness, shadow blur and shadow offsets.
C29_OverlayScales ==
    result # NULL =>
        /\ Len(result.scaled.calls) = Len(result.base.calls)
        /\ \A j \in 1..Len(result.base.calls) :
               /\ result.scaled.calls[j].op = result.base.calls[j].op
               /\ \A l \in 1..Len(Lengths(result.base.calls[j])) :
                      Lengths(result.scaled.calls[j])[l] =
                          Mul(Num(args.k), Lengths(result.base.calls[j])[l])

\* C30: from the start of a drag on, with the container width unchanged,
\* the offset is the one the drag started from plus 1080 / clientWidth
\* times the way from the start position to the last pointer position
\* handled, however many samples there were and whether or not a render
\* took place between them.
C30_DragTotal ==
    n > 0 =>
        /\ transform.offsetX =
              Add(args.from.offsetX,
                  Mul(Div(Num(1080), Num(clientWidth)),
                      Num(lastMousePos.x - args.start.x)))
        /\ transform.offsetY =
              Add(args.from.offsetY,
                  Mul(Div(Num(1080), Num(clientWidth)),
                      Num(lastMousePos.y - args.start.y)))
        /\ transform.scale = args.from.scale

\* four samples were handled without a render since the drag started, and
\* the pointer is away from where it started
C30_Witness ==
    /\ n = 5
    /\ ev.type \in {"mousemove", "touchmove"}
    /\ isDragging
    /\ view.transform = args.from
    /\ transform # args.from
    /\ lastMousePos # args.start
    /\ args.from # Identity

\* C31: while two fingers are down and the clamp has taken effect in no
\* sample of the pinch, the scale is the starting scale times the last
\* finger distance over the first one, whatever the samples in between
\* were; so it is the starting scale again when the fingers are back at
\* their first distance.
C31_PinchTotal ==
    (touches = 2 /\ ~result) =>
        /\ transform.scale =
              Div(Mul(args.from.scale, lastPinchDist), Num(args.d0))
        /\ lastPinchDist = Num(args.d0) => transform.scale = args.from.scale

\* the fingers are back at their first distance after four samples, the
\* last render showed another scale, and the clamp never took effect
C31_Witness ==
    /\ touches = 2
    /\ ~result
    /\ n = 5
    /\ ev.type = "touchmove"
    /\ lastPinchDist = Num(args.d0)
    /\ view.transform.scale # args.from.scale
    /\ pre.lastPinchDist # lastPinchDist

\* C31, second part: a pinch in which the clamp took effect, with the
\* fingers back at their first distance and the scale not the starting one
C31_ClampedNotRestored ==
    /\ touches = 2
    /\ result
    /\ lastPinchDist = Num(args.d0)
    /\ transform.scale # args.from.scale

\* C32: while no photo is loaded the transform is the initial one, scale 1
\* and offsets 0, whatever gesture events were handled.
C32_NoPhotoIdentity ==
    canvasState.image = 0 => transform = Identity

\* C33: once every decode that was started has completed, the photo in
\* the state, and the one on the canvas after the render, is the one picked
\* last.
C33_LastPickedShown ==
    (picked > 0 /\ loading = {}) =>
        /\ canvasState.image = picked
        /\ ~Pending => canvas.image = picked

\* C34: in every run of drawCanvas, the first and the later ones, the
\* canvas is cleared with the context in its default state and the photo
\* is drawn with the default shadow colour, blur and offsets and the
\* default stroke, fill and text settings, whatever state the overlay of
\* the run before left the context in.
C34_NoContextLeak ==
    \A i \in 1..Len(result) :
        \A k \in 1..Len(result[i].calls) :
            LET c == result[i].calls[k]
            IN  /\ c.op = "clearRect" => c.ctx = DefaultCtx
                /\ c.op = "drawImage" =>
                      [c.ctx EXCEPT !.filter = "none"] = DefaultCtx

\* the first run's overlay left the drop shadow and the bold centred font
\* set on the context, and a second run drew the photo on that canvas
C34_Witness ==
    /\ Len(result) = 2
    /\ args.img # NULL
    /\ result[1].canvas.ctx.shadowBlur = Num(15)
    /\ result[1].canvas.ctx.shadowColor = "rgba(0, 0, 0, 0.5)"
    /\ result[1].canvas.ctx.textAlign = "center"
    /\ Len(CallsOf(result[2], "drawImage")) = 1
    /\ CallsOf(result[2], "drawImage")[1].ctx.shadowBlur = Num(0)

\* C35: a step of the reset-position button leaves the transform at scale
\* 1 and offsets 0 and changes neither the photo, the stat fields, the
\* filter, the running loads nor the gesture session (dragging flag, last
\* pointer position, pinch baseline, contacts); and when the next event of
\* a drag in progress is a move sample, the offset after it is that
\* sample's delta alone, 1080 / clientWidth times the way from the last
\* pointer position to the sample.
C35_ResetOnlyTransform ==
    [][/\ (n' = n + 1 /\ ev'.type = "reset") =>
              /\ transform' = Identity
              /\ UNCHANGED <<canvasState, runData, loading, picked,
                             isDragging, lastMousePos, lastPinchDist,
                             touches, clientWidth>>
       /\ (/\ ev.type = "reset"
           /\ isDragging
           /\ n' = n + 1
           /\ \/ ev'.type = "mousemove"
              \/ ev'.type = "touchmove" /\ touches = 1) =>
              transform' =
                  [scale |-> Num(1),
                   offsetX |-> Mul(Div(Num(1080), Num(clientWidth)),
                                   Num(lastMousePos'.x - lastMousePos.x)),
                   offsetY |-> Mul(Div(Num(1080), Num(clientWidth)),
                                   Num(lastMousePos'.y - lastMousePos.y))]
      ]_vars

\* the button was pressed during a drag that had moved the photo: the
\* transform is the initial one and the drag goes on
C35_Witness ==
    /\ ev.type = "reset"
    /\ isDragging
    /\ pre.isDragging
    /\ pre.transform # Identity
    /\ transform = Identity
    /\ lastMousePos # Origin
    /\ view.image # 0

\* what the current cache holds once the installation is over
InstalledEntries ==
    (IF CACHE_NAME \in args.existing THEN Stored ELSE {})
    \cup ({ASSETS[i] : i \in 1..Len(ASSETS)} \ args.failing)

\* C36: the installation never fails, whichever of the listed assets
\* cannot be cached, and the worker gets activated; once it is, the
\* origin's only cache is the one named CACHE_NAME, with the entries it
\* had before and those the installation added.
C36_ActivateCleans ==
    /\ [](/\ result.phase # "redundant"
          /\ result.phase = "activated" =>
                /\ DOMAIN result.caches = {CACHE_NAME}
                /\ result.caches[CACHE_NAME] = InstalledEntries)
    /\ <>(result.phase = "activated")

\* the worker is activated where an outdated cache, the current one and
\* another script's cache existed and no listed asset could be cached
C36_Witness ==
    /\ result.phase = "activated"
    /\ args.existing = CacheNames
    /\ args.failing = {ASSETS[i] : i \in 1..Len(ASSETS)}
    /\ result.caches[CACHE_NAME] = Stored

\* C37: a request made while the network is reachable is answered with
\* the network's response, also when a cache holds a response for it; a
\* cached response is served only to a request whose network fetch failed.
C37_NetworkFirst ==
    result.served # NULL =>
        /\ result.served.online =>
              /\ result.served.response # NULL
              /\ result.served.response.from = "network"
        /\ (/\ result.served.response # NULL
            /\ result.served.response.from = "cache") =>
              ~result.served.online

=============================================================================
